---------------------------- MODULE Spec2Model ----------------------------
(***************************************************************************)
(* Key pool and user store of the reverse proxy.                           *)
(*                                                                         *)
(* Key pool: the Google PaLM key provider                                  *)
(* (src/src/shared/key-management/palm/provider.ts).  State: the           *)
(* provider's key list (this.keys), the wall clock read by Date.now(),     *)
(* and the outcome of the last call.  One action per public method of the  *)
(* provider, plus the passage of time.                                     *)
(*                                                                         *)
(* Spec       any sequence of calls, over the whole time horizon           *)
(* SpecUsage  any sequence of calls with every update and token amount     *)
(* SpecQueue  the calls of Spec with get behind the queue's lockout test   *)
(* SpecUpdate update with every partial, between get and incrementUsage    *)
(* SpecFair   get, disable and the clock, with the selections counted      *)
(*                                                                         *)
(* Fields of a key that no method of the provider reads or writes after    *)
(* construction (key, service, modelFamilies, isTrial) are not part of     *)
(* the state.                                                              *)
(*                                                                         *)
(* User store (src/src/shared/users/user-store.ts) with the model family   *)
(* classifier (src/src/shared/models.ts).  State: the users map, the set   *)
(* of tokens to flush and the configuration.  One action per exported      *)
(* function modelled.                                                      *)
(*                                                                         *)
(* SpecAuth   createUser, authenticate, disableUser and the clock          *)
(* SpecAdmin  createUser, upsertUser, authenticate, disableUser            *)
(* SpecQuota  charges between authentications, checks and refreshes        *)
(* SpecCheck  quota checks of every amount, charges and refreshes          *)
(* SpecFamily charges and checks for every supported model id              *)
(* SpecCleanup the periodic clean-up of expired temporary users            *)
(*                                                                         *)
(* Streamed responses                                                      *)
(* (src/src/proxy/middleware/response/handle-streamed-response.ts) with    *)
(* the error responses of src/unnamed/part_000.  State: the upstream       *)
(* response and how far it was read, the locals and the promise of the     *)
(* handler, and the client response.  One action per listener.             *)
(*                                                                         *)
(* SpecSplit  upstream bodies of any bytes, read in chunks of any size     *)
(* SpecStream OpenAI and Anthropic event streams, their end and errors     *)
(*                                                                         *)
(* Request pipeline (src/src/proxy/openai.ts,                              *)
(* src/src/proxy/openai-image.ts, the quota check of                       *)
(* src/src/proxy/middleware/request/apply-quota-limits.ts and finalizeBody *)
(* of src/src/proxy/middleware/response/streaming/event-aggregator.ts).    *)
(* State: the request, with the mutations recorded by its manager.         *)
(*                                                                         *)
(* SpecGate   chat, text and image requests with and without quota         *)
(* SpecRevert mutators, finalizeBody and the revert of the mutations       *)
(*                                                                         *)
(* Event aggregator (EventAggregator of event-aggregator.ts), the          *)
(* classification of internal errors (handleInternalError of               *)
(* src/unnamed/part_000) and the model lists of the routers                *)
(* (src/src/proxy/openai.ts, openai-image.ts, mistral-ai.ts).  State: the  *)
(* events collected, the keys listed per service and the cache of each     *)
(* router.                                                                 *)
(*                                                                         *)
(* SpecAggregate  events of each dialect added, and the final response     *)
(* SpecClassify   every kind of internal error, before and after a ping    *)
(* SpecModels     GET /v1/models on each router, keys disabled, the clock  *)
(* SpecClassifier the classifiers called with known and unknown ids        *)
(* SpecFallback   handleStreamedResponse on error statuses and for         *)
(*                requests that do not stream                              *)
(*                                                                         *)
(* Concurrency of the user store.  State: the requests between their       *)
(* quota check and their charge, the remote store and the writes of        *)
(* flushUsers that it has not served yet.                                  *)
(*                                                                         *)
(* SpecRace     requests checked and charged in any order                  *)
(* SpecFlush    mutations of the users between overlapping flushes         *)
(* SpecFail     SpecFlush with a remote store that may fail a write        *)
(* SpecRefresh  users of every type, charged, and the refresh job          *)
(***************************************************************************)
EXTENDS Integers, Sequences, FiniteSets, TLC

VARIABLES
    keys,       \* this.keys: index in the array -> key record
    now,        \* the value Date.now() returns
    ret,        \* outcome of the last call: what it returned or threw
    markedAt,   \* history kept under SpecQueue: per key, the time of its last
                \* markRateLimited (0: never)
    window,     \* history kept under SpecFair: the selections of get since the
                \* window was opened
    config,     \* the configuration read at start-up (maxIpsPerUser, tokenQuota)
    users,      \* the user store's map: token -> user record
    usersToFlush, \* the tokens whose record waits to be written to the remote store
    request,    \* the request in the proxy's pipeline (req and what was done to it)
    upstream,   \* the upstream response stream (proxyRes): its bytes and how far
                \* they were read
    handler,    \* the locals of handleStreamedResponse and its promise
    res,        \* the client response: headers, status, frames written, ended
    aggregator, \* the EventAggregator of a streamed response: format and events
    inflight,   \* the requests that passed applyQuotaLimits and were not charged yet
    serviceKeys,  \* keyPool.list(): the keys of the services the routers list models of
    modelsCaches, \* per router, the cached answer of GET /v1/models and its time
    remote,     \* the users of the remote store (usersRef)
    flushes     \* the runs of flushUsers that await the remote store

vars == <<keys, now, ret, markedAt, window, config, users, usersToFlush,
          request, upstream, handler, res, aggregator, inflight,
          serviceKeys, modelsCaches, remote, flushes>>
\* the state of the key pool and of its histories
poolVars == <<keys, markedAt, window>>
\* the state of the user store
storeVars == <<config, users, usersToFlush>>
\* the state of a proxied request and of its streamed response
proxyVars == <<request, upstream, handler, res>>
\* the state of the event aggregator and of the requests between check and charge
flightVars == <<aggregator, inflight>>
\* the state behind GET /v1/models
routerVars == <<serviceKeys, modelsCaches>>
\* the remote store and the flushes on their way to it
flushVars == <<remote, flushes>>
\* the state added to the proxy and the user store by the later sections
lateVars == <<flightVars, routerVars, flushVars>>

---------------------------------------------------------------------------
(* Program constants *)

RATE_LIMIT_LOCKOUT == 2000
KEY_REUSE_DELAY == 500

(* Bounds of the model *)

\* number of keys configured in GOOGLE_PALM_KEY
NumKeys == 2
\* the clock advances at most this many times, KEY_REUSE_DELAY ms each time
MaxTicks == 4
\* promptCount is explored up to this value
MaxPrompts == 1
\* a token counter is explored up to this value
MaxTokens == 2
\* a window of consecutive get calls is explored up to this length
MaxGets == 4
\* number of user tokens
NumUsers == 2
\* the positive value of maxIpsPerUser that is explored
MaxIps == 2
\* the positive per-family token quota that is explored
Quota == 2
\* longest body of an upstream response, in bytes, under SpecSplit
MaxStream == 6
\* keep-alive lines the heartbeat writes to one response
MaxPings == 1
\* events of a stream that an upstream sends before it ends or fails
MaxEvents == 4

\* 24 * 60 * 60 * 1000 ms: the time a disabled temporary user is kept
DAY == 86400000

\* Date.now() when the provider is constructed.  The epoch clock is far beyond
\* RATE_LIMIT_LOCKOUT, so that a fresh key (rateLimitedAt = 0) is not rate limited.
StartTime == RATE_LIMIT_LOCKOUT

MaxTime == StartTime + MaxTicks * KEY_REUSE_DELAY

\* position of a key in this.keys; the key's hash is identified with it
Hashes == 1..NumKeys
\* a hash that no key of the pool has
UnknownHash == 0

---------------------------------------------------------------------------
(* Key records *)

\* the key the constructor pushes for each configured secret
NewKey(h) ==
    [ hash             |-> h,
      isDisabled       |-> FALSE,
      promptCount      |-> 0,
      lastUsed         |-> 0,
      rateLimitedAt    |-> 0,
      rateLimitedUntil |-> 0,
      lastChecked      |-> 0,
      bisonTokens      |-> 0 ]

\* what a call that returns nothing (or is the clock) leaves in ret
Void == [kind |-> "void"]
\* a thrown error
Thrown(msg) == [kind |-> "error", message |-> msg]
\* get's result: a copy of the selected key
Returned(k) == [kind |-> "key", key |-> k]
\* getLockoutPeriod's result
Period(n) == [kind |-> "period", value |-> n]

\* this.keys.find((k) => k.hash === hash): the index, or 0 for undefined
Find(hash) == IF hash \in Hashes THEN hash ELSE 0

---------------------------------------------------------------------------
(* get: selection *)

\* this.keys.filter((k) => !k.isDisabled), as the sequence of indices in array order
EnabledFrom(ks, i) ==
    LET F[j \in 1..(NumKeys + 1)] ==
            IF j > NumKeys THEN <<>>
            ELSE IF ks[j].isDisabled THEN F[j + 1]
                 ELSE <<j>> \o F[j + 1]
    IN F[i]

\* faulty variant: the filter on isDisabled left out
availableKeys_NoFilter(ks) == [i \in Hashes |-> i]

availableKeys(ks) == EnabledFrom(ks, 1)

\* the sort's notion of a rate-limited key
IsRateLimited(k, t) == t - k.rateLimitedAt < RATE_LIMIT_LOCKOUT

\* the comparator handed to Array.prototype.sort
Compare(a, b, t) ==
    LET aRateLimited == IsRateLimited(a, t)
        bRateLimited == IsRateLimited(b, t)
    IN  IF aRateLimited /\ ~bRateLimited THEN 1
        ELSE IF ~aRateLimited /\ bRateLimited THEN -1
        ELSE IF aRateLimited /\ bRateLimited
             THEN a.rateLimitedAt - b.rateLimitedAt
        ELSE a.lastUsed - b.lastUsed

\* Array.prototype.sort is stable: x goes after every element that does not
\* compare greater than it
RECURSIVE InsertSorted(_, _, _, _)
InsertSorted(x, s, ks, t) ==
    IF s = <<>> THEN <<x>>
    ELSE IF Compare(ks[Head(s)], ks[x], t) <= 0
         THEN <<Head(s)>> \o InsertSorted(x, Tail(s), ks, t)
         ELSE <<x>> \o s

RECURSIVE SortFrom(_, _, _, _)
SortFrom(todo, done, ks, t) ==
    IF todo = <<>> THEN done
    ELSE SortFrom(Tail(todo), InsertSorted(Head(todo), done, ks, t), ks, t)

keysByPriority(ks, t) == SortFrom(availableKeys(ks), <<>>, ks, t)

\* faulty variant: the write of rateLimitedUntil left out
Throttle_NoDeadline(k, t) ==
    [k EXCEPT !.lastUsed = t,
              !.rateLimitedAt = t]

\* the writes get makes to the selected key
Throttle(k, t) ==
    [k EXCEPT !.lastUsed = t,
              !.rateLimitedAt = t,
              !.rateLimitedUntil = t + KEY_REUSE_DELAY]

\* faulty variant: the empty pool not checked: the first key of the array is used
get_NoEmptyCheck ==
    LET selectedKey == IF Len(availableKeys(keys)) = 0 THEN 1
                       ELSE keysByPriority(keys, now)[1]
    IN  /\ keys' = [keys EXCEPT ![selectedKey] = Throttle(@, now)]
        /\ ret' = Returned(keys'[selectedKey])
        /\ UNCHANGED <<now, markedAt>>

get ==
    IF Len(availableKeys(keys)) = 0
    THEN /\ ret' = Thrown("No Google PaLM keys available")
         /\ UNCHANGED <<keys, now, markedAt>>
    ELSE LET selectedKey == keysByPriority(keys, now)[1]
         IN  /\ keys' = [keys EXCEPT ![selectedKey] = Throttle(@, now)]
             /\ ret' = Returned(keys'[selectedKey])
             /\ UNCHANGED <<now, markedAt>>

---------------------------------------------------------------------------
(* disable, update, incrementUsage, markRateLimited *)

\* faulty variant: the flag is flipped instead of set
disable_Toggle(hash) ==
    LET keyFromPool == Find(hash)
    IN  /\ IF keyFromPool = 0
           THEN UNCHANGED keys
           ELSE keys' = [keys EXCEPT ![keyFromPool].isDisabled = ~@]
        /\ ret' = Void
        /\ UNCHANGED <<now, markedAt>>

disable(hash) ==
    LET keyFromPool == Find(hash)
    IN  /\ IF keyFromPool = 0 \/ keys[keyFromPool].isDisabled
           THEN UNCHANGED keys
           ELSE keys' = [keys EXCEPT ![keyFromPool].isDisabled = TRUE]
        /\ ret' = Void
        /\ UNCHANGED <<now, markedAt>>

\* The updates a caller can pass: GooglePalmKeyUpdate leaves out key, hash,
\* lastUsed, promptCount, rateLimitedAt and rateLimitedUntil.
Partials ==
    { <<>> }
    \cup { [isDisabled |-> b] : b \in BOOLEAN }
    \cup { [lastChecked |-> 0] }
    \cup { [bisonTokens |-> 0] }
    \cup { [isDisabled |-> b, lastChecked |-> 0] : b \in BOOLEAN }

\* faulty variant: the earlier spread wins
Spread_FirstWins(first, second) ==
    [f \in (DOMAIN first) \cup (DOMAIN second) |->
        IF f \in DOMAIN first THEN first[f] ELSE second[f]]

\* { ...first, ...second }: the later spread wins
Spread(first, second) ==
    [f \in (DOMAIN first) \cup (DOMAIN second) |->
        IF f \in DOMAIN second THEN second[f] ELSE first[f]]

\* Object.assign(target, source)
ObjectAssign(target, source) ==
    [f \in DOMAIN target |-> IF f \in DOMAIN source THEN source[f] ELSE target[f]]

update(hash, partial) ==
    LET keyFromPool == Find(hash)
    IN  /\ IF keyFromPool = 0
           THEN /\ ret' = Thrown("TypeError")
                /\ UNCHANGED keys
           ELSE /\ keys' = [keys EXCEPT ![keyFromPool] =
                                ObjectAssign(@, Spread([lastChecked |-> now], partial))]
                /\ ret' = Void
        /\ UNCHANGED <<now, markedAt>>

incrementUsage(hash, tokens) ==
    LET key == Find(hash)
    IN  /\ IF key = 0
           THEN UNCHANGED keys
           ELSE /\ keys[key].promptCount < MaxPrompts
                /\ keys[key].bisonTokens + tokens <= MaxTokens
                /\ keys' = [keys EXCEPT ![key].promptCount = @ + 1,
                                        ![key].bisonTokens = @ + tokens]
        /\ ret' = Void
        /\ UNCHANGED <<now, markedAt>>

\* faulty variant: the lockout of the reuse delay instead of RATE_LIMIT_LOCKOUT
markRateLimited_ShortLockout(keyHash) ==
    LET key == Find(keyHash)
    IN  /\ IF key = 0
           THEN /\ ret' = Thrown("TypeError")
                /\ UNCHANGED keys
           ELSE /\ keys' = [keys EXCEPT ![key].rateLimitedAt = now,
                                        ![key].rateLimitedUntil = now + KEY_REUSE_DELAY]
                /\ ret' = Void
        /\ UNCHANGED now

markRateLimited(keyHash) ==
    LET key == Find(keyHash)
    IN  /\ IF key = 0
           THEN /\ ret' = Thrown("TypeError")
                /\ UNCHANGED keys
           ELSE /\ keys' = [keys EXCEPT ![key].rateLimitedAt = now,
                                        ![key].rateLimitedUntil = now + RATE_LIMIT_LOCKOUT]
                /\ ret' = Void
        /\ UNCHANGED now

---------------------------------------------------------------------------
(* getLockoutPeriod *)

Min(S) == CHOOSE x \in S : \A y \in S : x <= y

\* faulty variant: disabled keys counted among the active keys
LockoutPeriod_AllKeys(ks, t) ==
    LET activeKeys == Hashes
        rateLimitedKeys == {i \in activeKeys : t < ks[i].rateLimitedUntil}
        anyNotRateLimited == Cardinality(rateLimitedKeys) < Cardinality(activeKeys)
    IN  IF activeKeys = {} THEN 0
        ELSE IF anyNotRateLimited THEN 0
        ELSE Min({ks[i].rateLimitedUntil - t : i \in activeKeys})

LockoutPeriod(ks, t) ==
    LET activeKeys == {i \in Hashes : ~ks[i].isDisabled}
        rateLimitedKeys == {i \in activeKeys : t < ks[i].rateLimitedUntil}
        anyNotRateLimited == Cardinality(rateLimitedKeys) < Cardinality(activeKeys)
    IN  IF activeKeys = {} THEN 0
        ELSE IF anyNotRateLimited THEN 0
        ELSE Min({ks[i].rateLimitedUntil - t : i \in activeKeys})

getLockoutPeriod ==
    /\ ret' = Period(LockoutPeriod(keys, now))
    /\ UNCHANGED <<keys, now, markedAt>>

---------------------------------------------------------------------------
(* The clock *)

\* time passes: KEY_REUSE_DELAY ms at a time, up to horizon
Tick(horizon) ==
    /\ now + KEY_REUSE_DELAY <= horizon
    /\ now' = now + KEY_REUSE_DELAY
    /\ ret' = Void
    /\ UNCHANGED <<keys, markedAt>>

---------------------------------------------------------------------------
(* Model ids and model families (src/src/shared/models.ts) *)

\* A model id is the sequence of its characters.
gpt_4 ==
    <<"g", "p", "t", "-", "4">>
gpt_4_0613 ==
    <<"g", "p", "t", "-", "4", "-", "0", "6", "1", "3">>
gpt_4_32k_0613 ==
    <<"g", "p", "t", "-", "4", "-", "3", "2", "k", "-", "0", "6", "1", "3">>
gpt_4_1106_preview ==
    <<"g", "p", "t", "-", "4", "-", "1", "1", "0", "6", "-", "p", "r", "e", "v", "i", "e", "w">>
gpt_3_5_turbo_instruct ==
    <<"g", "p", "t", "-", "3", ".", "5", "-", "t", "u", "r", "b", "o", "-", "i", "n", "s", "t", "r", "u", "c", "t">>
text_embedding_ada_002 ==
    <<"t", "e", "x", "t", "-", "e", "m", "b", "e", "d", "d", "i", "n", "g", "-", "a", "d", "a", "-", "0", "0", "2">>
dall_e_3 ==
    <<"d", "a", "l", "l", "-", "e", "-", "3">>
text_bison_001 ==
    <<"t", "e", "x", "t", "-", "b", "i", "s", "o", "n", "-", "0", "0", "1">>
claude_2 ==
    <<"c", "l", "a", "u", "d", "e", "-", "2">>
anthropic_claude_v2 ==
    <<"a", "n", "t", "h", "r", "o", "p", "i", "c", ".", "c", "l", "a", "u", "d", "e", "-", "v", "2">>

Digits == {"0", "1", "2", "3", "4", "5", "6", "7", "8", "9"}

\* model.startsWith(prefix)
StartsWith(model, prefix) ==
    /\ Len(model) >= Len(prefix)
    /\ SubSeq(model, 1, Len(prefix)) = prefix

\* model.includes(part)
IncludesString(model, part) ==
    \E i \in 1..(Len(model) - Len(part) + 1) :
        SubSeq(model, i, i + Len(part) - 1) = part

\* The regular expressions of OPENAI_MODEL_FAMILY_MAP, in the order of the
\* table.  Each is ^text(optional)?\d{digits} followed by $ when closed; a "."
\* of the text stands for any character.
OPENAI_MODEL_FAMILY_MAP ==
    << [text |-> <<"g", "p", "t", "-", "4", "-", "1", "1", "0", "6">>, optional |-> <<"-", "p", "r", "e", "v", "i", "e", "w">>,
        digits |-> 0, closed |-> TRUE, family |-> "gpt4-turbo"],
       [text |-> <<"g", "p", "t", "-", "4", "-", "3", "2", "k", "-">>, optional |-> << >>,
        digits |-> 4, closed |-> TRUE, family |-> "gpt4-32k"],
       [text |-> <<"g", "p", "t", "-", "4", "-", "3", "2", "k">>, optional |-> << >>,
        digits |-> 0, closed |-> TRUE, family |-> "gpt4-32k"],
       [text |-> <<"g", "p", "t", "-", "4", "-">>, optional |-> << >>,
        digits |-> 4, closed |-> TRUE, family |-> "gpt4"],
       [text |-> <<"g", "p", "t", "-", "4">>, optional |-> << >>,
        digits |-> 0, closed |-> TRUE, family |-> "gpt4"],
       [text |-> <<"g", "p", "t", "-", "3", ".", "5", "-", "t", "u", "r", "b", "o">>, optional |-> << >>,
        digits |-> 0, closed |-> FALSE, family |-> "turbo"],
       [text |-> <<"t", "e", "x", "t", "-", "e", "m", "b", "e", "d", "d", "i", "n", "g", "-", "a", "d", "a", "-", "0", "0", "2">>, optional |-> << >>,
        digits |-> 0, closed |-> TRUE, family |-> "turbo"],
       [text |-> <<"d", "a", "l", "l", "-", "e", "-">>, optional |-> << >>,
        digits |-> 4, closed |-> TRUE, family |-> "dall-e"] >>

\* model.match(regex) for a regular expression of the table
Matches(model, regex) ==
    \E text \in {regex.text, regex.text \o regex.optional} :
        LET n == Len(text) + regex.digits
        IN  /\ Len(model) >= n
            /\ \A i \in 1..Len(text) : text[i] = "." \/ model[i] = text[i]
            /\ \A i \in (Len(text) + 1)..n : model[i] \in Digits
            /\ regex.closed => Len(model) = n

\* faulty variant: the last regular expression that matches decides
getOpenAIModelFamily_LastMatch(model, defaultFamily) ==
    LET hits == {i \in 1..Len(OPENAI_MODEL_FAMILY_MAP) :
                    Matches(model, OPENAI_MODEL_FAMILY_MAP[i])}
    IN  IF hits = {} THEN defaultFamily
        ELSE OPENAI_MODEL_FAMILY_MAP[CHOOSE i \in hits : \A j \in hits : j <= i].family

\* the family of the first regular expression that matches, or the default
getOpenAIModelFamily(model, defaultFamily) ==
    LET hits == {i \in 1..Len(OPENAI_MODEL_FAMILY_MAP) :
                    Matches(model, OPENAI_MODEL_FAMILY_MAP[i])}
    IN  IF hits = {} THEN defaultFamily
        ELSE OPENAI_MODEL_FAMILY_MAP[Min(hits)].family

getAwsBedrockModelFamily(model) == "aws-claude"

getClaudeModelFamily(model) ==
    IF StartsWith(model, <<"a", "n", "t", "h", "r", "o", "p", "i", "c", ".">>)
    THEN getAwsBedrockModelFamily(model)
    ELSE "claude"

\* both branches of the function return "bison"
getGooglePalmModelFamily(model) == "bison"

\* classify(service, modelId): the classifier of the provider that serves the
\* model, OpenAI ids with the default family of getOpenAIModelFamily
classify(service, model) ==
    CASE service = "openai" -> getOpenAIModelFamily(model, "gpt4")
      [] service = "anthropic" -> getClaudeModelFamily(model)
      [] service = "google-palm" -> getGooglePalmModelFamily(model)
      [] service = "aws" -> getAwsBedrockModelFamily(model)

\* the model ids requests name, each with the provider that serves it
SupportedModels ==
    { [service |-> "openai", id |-> m] :
        m \in {gpt_4, gpt_4_0613, gpt_4_32k_0613, gpt_4_1106_preview,
               gpt_3_5_turbo_instruct, text_embedding_ada_002, dall_e_3} }
    \cup { [service |-> "google-palm", id |-> text_bison_001],
           [service |-> "anthropic", id |-> claude_2],
           [service |-> "aws", id |-> anthropic_claude_v2] }

---------------------------------------------------------------------------
(* The user store (src/src/shared/users/user-store.ts) *)

\* An optional value: <<>> is undefined (or a deleted property), <<v>> is v.
Undefined == << >>
Some(v) == <<v>>
\* faulty variant: no value counts as set
Truthy_Never(m) == FALSE

\* JavaScript truthiness of an optional number
Truthy(m) == m # Undefined /\ m[1] # 0
\* m ?? d
Coalesce(m, d) == IF m = Undefined THEN d ELSE m[1]

\* the tokens uuid() can return, and a token no user has
Tokens == 1..NumUsers
UnknownToken == 0
AnyToken == Tokens \cup {UnknownToken}
\* the addresses requests come from
Ips == 1..(MaxIps + 1)

MODEL_FAMILIES ==
    {"turbo", "gpt4", "gpt4-32k", "gpt4-turbo", "dall-e", "claude", "bison", "aws-claude"}

\* tokenCounts of a new user: { turbo: 0, gpt4: 0, "gpt4-32k": 0, claude: 0 }
NewCounts ==
    [f \in MODEL_FAMILIES |->
        IF f \in {"turbo", "gpt4", "gpt4-32k", "claude"} THEN Some(0) ELSE Undefined]

\* config.tokenQuota: a positive quota for two families, none for the others
TokenQuota ==
    [f \in MODEL_FAMILIES |->
        IF f \in {"gpt4", "claude"} THEN Some(Quota) ELSE Some(0)]

Configs == { [maxIpsPerUser |-> n, tokenQuota |-> TokenQuota] : n \in {0, MaxIps} }
MAX_IPS_PER_USER == config.maxIpsPerUser

\* the record createUser and upsertUser start from
DefaultUser(token) ==
    [ token          |-> token,
      ip             |-> << >>,
      type           |-> "normal",
      promptCount    |-> 0,
      tokenCounts    |-> NewCounts,
      tokenLimits    |-> config.tokenQuota,
      createdAt      |-> now,
      lastUsedAt     |-> Undefined,
      disabledAt     |-> Undefined,
      disabledReason |-> Undefined,
      expiresAt      |-> Undefined ]

\* what a call of the store returns
ReturnedToken(t) == [kind |-> "token", token |-> t]
ReturnedUser(u) == [kind |-> "user", user |-> u]
ReturnedBool(b) == [kind |-> "bool", value |-> b]

\* users.set(token, user)
MapSet(map, token, user) ==
    [t \in (DOMAIN map) \cup {token} |-> IF t = token THEN user ELSE map[t]]

\* an optional field of an options object
Option(o, f) == IF f \in DOMAIN o THEN Some(o[f]) ELSE Undefined

\* uuid() returns a token no user has
createUser(createOptions) ==
    \E token \in Tokens \ DOMAIN users :
        LET start == [DefaultUser(token) EXCEPT
                        !.tokenLimits = Coalesce(Option(createOptions, "tokenLimits"),
                                                 config.tokenQuota)]
            newUser ==
                IF Option(createOptions, "type") = Some("temporary")
                THEN [start EXCEPT !.type = "temporary",
                                   !.expiresAt = Option(createOptions, "expiresAt")]
                ELSE [start EXCEPT
                        !.type = Coalesce(Option(createOptions, "type"), "normal")]
        IN  /\ users' = MapSet(users, token, newUser)
            /\ usersToFlush' = usersToFlush \cup {token}
            /\ ret' = ReturnedToken(token)
            /\ UNCHANGED <<now, config>>

\* upsertUser(user): user.set holds the fields with a value, already in the form
\* the record keeps them, and user.del names the fields given as null
upsertUser(user) ==
    LET token == user.token
        existing == IF token \in DOMAIN users THEN users[token] ELSE DefaultUser(token)
        deleted == [f \in DOMAIN existing |->
                        IF f \in user.del THEN Undefined ELSE existing[f]]
        updates == [f \in DOMAIN user.set |->
                        IF f \in {"tokenCounts", "tokenLimits"}
                        THEN [user.set[f] EXCEPT
                                !["gpt4-32k"] = Some(Coalesce(@, 0))]
                        ELSE user.set[f]]
        upserted == Spread(deleted, updates)
    IN  /\ users' = MapSet(users, token, upserted)
        /\ usersToFlush' = usersToFlush \cup {token}
        /\ ret' = ReturnedUser(upserted)
        /\ UNCHANGED <<now, config>>

\* faulty variant: no address is recognised
Includes_Never(list, x) == FALSE

\* user.ip.includes(ip)
Includes(list, x) == \E i \in 1..Len(list) : list[i] = x

\* the user after disableUser's assignments
DisabledUser(user, reason) ==
    [user EXCEPT !.disabledAt = Some(now), !.disabledReason = reason]

disableUser(token, reason) ==
    /\ IF token \notin DOMAIN users
       THEN UNCHANGED <<users, usersToFlush>>
       ELSE /\ users' = [users EXCEPT ![token] = DisabledUser(@, reason)]
            /\ usersToFlush' = usersToFlush \cup {token}
    /\ ret' = Void
    /\ UNCHANGED <<now, config>>

IpLimitReason == "IP address limit exceeded."

\* faulty variant: the limit is reached by the address that meets it
OverIpLimit_AtLimit(user) ==
    /\ ~(user.type = "special" \/ MAX_IPS_PER_USER = 0)
    /\ Len(user.ip) >= MAX_IPS_PER_USER

\* user.ip.length > ipLimit, where ipLimit is Infinity for a special user and
\* when no limit is configured
OverIpLimit(user) ==
    /\ ~(user.type = "special" \/ MAX_IPS_PER_USER = 0)
    /\ Len(user.ip) > MAX_IPS_PER_USER

authenticate(token, ip) ==
    /\ IF token \notin DOMAIN users \/ Truthy(users[token].disabledAt)
       THEN /\ ret' = Void
            /\ UNCHANGED <<users, usersToFlush>>
       ELSE LET user == [users[token] EXCEPT
                            !.ip = IF Includes(@, ip) THEN @ ELSE Append(@, ip)]
            IN  IF OverIpLimit(user)
                THEN /\ users' = [users EXCEPT ![token] =
                                    DisabledUser(user, Some(IpLimitReason))]
                     /\ usersToFlush' = usersToFlush \cup {token}
                     /\ ret' = Void
                ELSE /\ users' = [users EXCEPT ![token] =
                                    [user EXCEPT !.lastUsedAt = Some(now)]]
                     /\ usersToFlush' = usersToFlush \cup {token}
                     /\ ret' = ReturnedUser(users'[token])
    /\ UNCHANGED <<now, config>>

\* the family a model is counted under (user-store.ts)
getModelFamilyForQuotaUsage(model) ==
    IF IncludesString(model, <<"3", "2", "k">>) THEN "gpt4-32k"
    ELSE IF StartsWith(model, gpt_4) THEN "gpt4"
    ELSE IF StartsWith(model, <<"g", "p", "t", "-", "3", ".", "5">>) THEN "turbo"
    ELSE "claude"

incrementPromptCount(token) ==
    /\ IF token \notin DOMAIN users
       THEN UNCHANGED <<users, usersToFlush>>
       ELSE /\ users[token].promptCount < MaxPrompts
            /\ users' = [users EXCEPT ![token].promptCount = @ + 1]
            /\ usersToFlush' = usersToFlush \cup {token}
    /\ ret' = Void
    /\ UNCHANGED <<now, config>>

\* faulty variant: the consumption replaces the count
Charge_Overwrite(counts, family, consumption) ==
    [counts EXCEPT ![family] = Some(consumption)]

\* tokenCounts[family] ??= 0; tokenCounts[family] += consumption
Charge(counts, family, consumption) ==
    [counts EXCEPT ![family] = Some(Coalesce(@, 0) + consumption)]

\* the tokens counted for a user, over all families
SumOver(counts, families) ==
    LET RECURSIVE Sum(_)
        Sum(F) == IF F = {} THEN 0
                  ELSE LET f == CHOOSE x \in F : TRUE
                       IN  Coalesce(counts[f], 0) + Sum(F \ {f})
    IN  Sum(families)

incrementTokenCount(token, model, consumption) ==
    /\ IF token \notin DOMAIN users
       THEN UNCHANGED <<users, usersToFlush>>
       ELSE LET user == users[token]
                modelFamily == getModelFamilyForQuotaUsage(model)
            IN  /\ SumOver(user.tokenCounts, MODEL_FAMILIES) + consumption <= MaxTokens
                /\ users' = [users EXCEPT ![token].tokenCounts =
                                Charge(@, modelFamily, consumption)]
                /\ usersToFlush' = usersToFlush \cup {token}
    /\ ret' = Void
    /\ UNCHANGED <<now, config>>

\* faulty variant: a request that reaches the limit is allowed
WithinLimit_Inclusive(tokensConsumed, tokenLimit) == tokensConsumed <= tokenLimit

\* tokensConsumed < tokenLimit
WithinLimit(tokensConsumed, tokenLimit) == tokensConsumed < tokenLimit

\* what hasAvailableQuota returns
AvailableQuota(token, model, requested) ==
    IF token \notin DOMAIN users THEN FALSE
    ELSE LET user == users[token]
             modelFamily == getModelFamilyForQuotaUsage(model)
             tokenLimit == user.tokenLimits[modelFamily]
             tokensConsumed == Coalesce(user.tokenCounts[modelFamily], 0) + requested
         IN  IF user.type = "special" THEN TRUE
             ELSE IF ~Truthy(tokenLimit) THEN TRUE
             ELSE WithinLimit(tokensConsumed, tokenLimit[1])

hasAvailableQuota(token, model, requested) ==
    /\ ret' = ReturnedBool(AvailableQuota(token, model, requested))
    /\ UNCHANGED <<now, config, users, usersToFlush>>

\* faulty variant: every family is refreshed, whatever its quota
Granted_Always(quota) == TRUE

\* .filter(([, quota]) => quota > 0), over the entries of config.tokenQuota
Granted(quota) == Coalesce(quota, 0) > 0

\* the limits of a user after the refresh
Refreshed(user) ==
    [model \in MODEL_FAMILIES |->
        IF Granted(config.tokenQuota[model])
        THEN Some(Coalesce(user.tokenCounts[model], 0) + Coalesce(config.tokenQuota[model], 0))
        ELSE user.tokenLimits[model]]

refreshQuota(token) ==
    /\ IF token \notin DOMAIN users
       THEN UNCHANGED <<users, usersToFlush>>
       ELSE /\ users' = [users EXCEPT ![token].tokenLimits = Refreshed(users[token])]
            /\ usersToFlush' = usersToFlush \cup {token}
    /\ ret' = Void
    /\ UNCHANGED <<now, config>>

\* the refresh job: refreshQuota for every user that is not temporary
refreshAllQuotas ==
    LET due == {token \in DOMAIN users : users[token].type # "temporary"}
    IN  /\ users' = [token \in DOMAIN users |->
                        IF token \in due
                        THEN [users[token] EXCEPT !.tokenLimits = Refreshed(users[token])]
                        ELSE users[token]]
        /\ usersToFlush' = usersToFlush \cup due
        /\ ret' = Void
        /\ UNCHANGED <<now, config>>

ExpiredReason == "Temporary token expired."

\* user.expiresAt && user.expiresAt < now && !user.disabledAt
ExpiryDue(user) ==
    /\ Truthy(user.expiresAt)
    /\ user.expiresAt[1] < now
    /\ ~Truthy(user.disabledAt)

\* faulty variant: the user is deleted from 24 h on
DeletionDue_FromDay(user) ==
    /\ Truthy(user.disabledAt)
    /\ user.disabledAt[1] + DAY <= now

\* user.disabledAt && user.disabledAt + 24 * 60 * 60 * 1000 < now
DeletionDue(user) ==
    /\ Truthy(user.disabledAt)
    /\ user.disabledAt[1] + DAY < now

\* a temporary user after the first test of the loop body
Expired(user) ==
    IF ExpiryDue(user) THEN DisabledUser(user, Some(ExpiredReason)) ELSE user

cleanupExpiredTokens ==
    LET temporary == {t \in DOMAIN users : users[t].type = "temporary"}
        disabled == {t \in temporary : ExpiryDue(users[t])}
        deleted == {t \in temporary : DeletionDue(Expired(users[t]))}
    IN  /\ users' = [t \in (DOMAIN users) \ deleted |->
                        IF t \in temporary THEN Expired(users[t]) ELSE users[t]]
        /\ usersToFlush' = usersToFlush \cup disabled \cup deleted
        /\ ret' = Void
        /\ UNCHANGED <<now, config>>

\* time passes in the user store: half a day at a time, up to horizon
HalfDay == DAY \div 2
Elapse(horizon) ==
    /\ now + HalfDay <= horizon
    /\ now' = now + HalfDay
    /\ ret' = Void
    /\ UNCHANGED <<config, users, usersToFlush>>

---------------------------------------------------------------------------
(* Strings and JSON of the streamed response *)

\* A string of the stream is a sequence of items: a character, or the
\* serialisation of one JSON value (JSON.stringify's output, which JSON.parse
\* reads back).  Strings carried inside a JSON value are sequences of
\* one-character strings.
Ch(c) == [ch |-> c]
Json(v) == [json |-> v]
Text(s) == [i \in 1..Len(s) |-> Ch(s[i])]

LF == Ch("\n")
\* "\n\n"
BlankLine == <<LF, LF>>
\* "data:" and "data: "
DataColon == Text(<<"d", "a", "t", "a", ":">>)
DataPrefix == Text(<<"d", "a", "t", "a", ":", " ">>)
\* "data: [DONE]"
DataDone == Text(<<"d", "a", "t", "a", ":", " ", "[", "D", "O", "N", "E", "]">>)

\* JSON.stringify(v)
JSONstringify(v) == <<Json(v)>>
\* JSON.stringify(str) for a string: a JSON string, not an object
JSONstringifyString(str) == <<Json([string |-> str])>>
\* JSON.parse(str) returns a value when str is one serialisation, and throws
\* SyntaxError otherwise
Parses(str) == Len(str) = 1 /\ "json" \in DOMAIN str[1]
JSONparse(str) == str[1].json

\* str.slice(n)
Slice(str, n) ==
    IF n >= 0 THEN SubSeq(str, n + 1, Len(str))
    ELSE SubSeq(str, (IF Len(str) + n > 0 THEN Len(str) + n ELSE 0) + 1, Len(str))

\* str.split("\n\n"): the segments between the separators, found left to right
RECURSIVE SplitFrom(_, _, _)
SplitFrom(str, segment, segments) ==
    IF str = << >> THEN Append(segments, segment)
    ELSE IF StartsWith(str, BlankLine)
         THEN SplitFrom(SubSeq(str, 3, Len(str)), << >>, Append(segments, segment))
         ELSE SplitFrom(Tail(str), Append(segment, str[1]), segments)

Split(str) == SplitFrom(str, << >>, << >>)

\* chunks.join("")
RECURSIVE Join(_)
Join(chunks) == IF chunks = << >> THEN << >> ELSE Head(chunks) \o Join(Tail(chunks))

\* line.trim()
IsSpace(item) == item \in {LF, Ch(" ")}
RECURSIVE TrimStart(_)
TrimStart(str) ==
    IF str # << >> /\ IsSpace(Head(str)) THEN TrimStart(Tail(str)) ELSE str
RECURSIVE TrimEnd(_)
TrimEnd(str) ==
    IF str # << >> /\ IsSpace(str[Len(str)])
    THEN TrimEnd(SubSeq(str, 1, Len(str) - 1)) ELSE str
Trim(str) == TrimEnd(TrimStart(str))

\* JavaScript truthiness of an optional string
TruthyString(m) == m # Undefined /\ m[1] # << >>

---------------------------------------------------------------------------
(* handleStreamedResponse                                                  *)
(* (src/src/proxy/middleware/response/handle-streamed-response.ts)         *)

\* what transformEvent returns
Transformed(position, event) == [kind |-> "event", position |-> position, event |-> event]
\* what convertEventsToFinalResponse returns
Response(body) == [kind |-> "response", body |-> body]
\* what buildFakeSseMessage returns
Message(text) == [kind |-> "message", text |-> text]

transformEvent(data, fromApi, toApi, lastPosition) ==
    IF fromApi = toApi THEN Transformed(-1, data)
    ELSE IF fromApi = "openai" /\ toApi = "anthropic"
    THEN Thrown("OpenAI -> Anthropic streaming not yet supported.")
    ELSE IF ~StartsWith(data, DataColon) THEN Transformed(lastPosition, data)
    ELSE IF StartsWith(data, DataDone) THEN Transformed(lastPosition, data)
    ELSE LET body == Slice(data, Len(DataPrefix))
         IN  IF ~Parses(body) THEN Thrown("SyntaxError")
             ELSE LET parsed == JSONparse(body)
                      event ==
                          IF TruthyString(Option(parsed, "completion"))
                          THEN [parsed EXCEPT !.completion = Slice(@, lastPosition)]
                          ELSE parsed
                  IN  IF "completion" \notin DOMAIN event THEN Thrown("TypeError")
                      ELSE Transformed(Len(event.completion),
                                       DataPrefix \o JSONstringify(event) \o BlankLine)

\* the headers copyHeaders leaves out
toOmit ==
    {"content-length", "content-encoding", "transfer-encoding", "content-type",
     "connection", "cache-control"}

\* the response headers after copyHeaders(proxyRes, res)
copyHeaders(proxyHeaders, headers) ==
    [name \in (DOMAIN headers) \cup ((DOMAIN proxyHeaders) \ toOmit) |->
        IF name \in (DOMAIN proxyHeaders) \ toOmit THEN proxyHeaders[name]
        ELSE headers[name]]

\* the response while it is an empty OpenAI completion
EmptyResponse == [id |-> "", object |-> "", created |-> 0, model |-> "", choices |-> << >>]

\* the reduce callback of convertEventsToFinalResponse: (acc, chunk, i)
ReduceEvent(acc, chunk, i) ==
    IF acc.kind = "error" THEN acc
    ELSE IF ~StartsWith(chunk, DataPrefix) THEN acc
    ELSE IF chunk = DataDone THEN acc
    ELSE LET body == Slice(chunk, Len(DataPrefix))
         IN  IF ~Parses(body) THEN Thrown("SyntaxError")
             ELSE LET data == JSONparse(body)
                  IN  IF "choices" \notin DOMAIN data \/ data.choices = << >>
                      THEN Thrown("TypeError")
                      ELSE IF i = 0
                      THEN Response(
                              [id |-> data.id, object |-> data.object,
                               created |-> data.created, model |-> data.model,
                               choices |->
                                 << [message |-> [role |-> Option(data.choices[1].delta, "role"),
                                                  content |-> << >>],
                                     index |-> 0,
                                     finish_reason |-> Undefined] >>])
                      ELSE IF acc.body.choices = << >> THEN Thrown("TypeError")
                      ELSE LET content == Option(data.choices[1].delta, "content")
                           IN  Response(
                                  [acc.body EXCEPT
                                      !.choices[1].message.content =
                                          IF TruthyString(content) THEN @ \o content[1] ELSE @,
                                      !.choices[1].finish_reason = data.choices[1].finish_reason])

\* events.reduce(callback, response), from the event of index i on
RECURSIVE Reduce(_, _, _)
Reduce(acc, events, i) ==
    IF i >= Len(events) THEN acc
    ELSE Reduce(ReduceEvent(acc, events[i + 1], i), events, i + 1)

convertEventsToFinalResponse(chunks, service, id) ==
    IF service = "openai"
    THEN LET lines == Split(Join(chunks))
             events == [i \in 1..Len(lines) |-> Trim(lines[i])]
         IN  Reduce(Response(EmptyResponse), events, 0)
    ELSE IF service = "anthropic"
    THEN IF Len(chunks) < 2 THEN Thrown("TypeError")
         ELSE LET lastEvent == chunks[Len(chunks) - 1]
                  body == Slice(lastEvent, Len(DataPrefix))
              IN  IF ~Parses(body) THEN Thrown("SyntaxError")
                  ELSE LET data == JSONparse(body)
                       IN  Response([f \in (DOMAIN data) \cup {"log_id"} |->
                                        IF f = "log_id" THEN id ELSE data[f]])
    ELSE Thrown("If you get this, something is fucked")

---------------------------------------------------------------------------
(* Error responses (src/unnamed/part_000) *)

\* String(n) for a natural number
RECURSIVE Decimal(_)
Decimal(n) ==
    LET digit == <<"0", "1", "2", "3", "4", "5", "6", "7", "8", "9">>[(n % 10) + 1]
    IN  IF n < 10 THEN <<Ch(digit)>> ELSE Append(Decimal(n \div 10), Ch(digit))

\* JSON.stringify(v, null, 2): the same value, indented
JSONstringifyIndented(v) == <<[json |-> v, indent |-> 2]>>

\* the fence of a code block: three grave accents (U+0060), a character that
\* a string of this module cannot hold
Fence == <<Ch("grave"), Ch("grave"), Ch("grave")>>

\* the names of the fake events
MidStreamError == Text(<<"m", "i", "d", "-", "s", "t", "r", "e", "a", "m", "-", "e", "r", "r", "o", "r">>)
ProxyRequestId(id) == Text(<<"p", "r", "o", "x", "y", "-", "r", "e", "q", "-">>) \o id

buildFakeSseMessage(type, string, req) ==
    LET content == (Fence \o Text(<<"\n", "[">>)) \o type \o Text(<<":", " ">>) \o string \o (Text(<<"]", "\n">>) \o Fence \o Text(<<"\n">>))
    IN  IF req.inboundApi = "openai"
        THEN Message(DataPrefix \o JSONstringify(
                [id |-> Text(<<"c", "h", "a", "t", "c", "m", "p", "l", "-">>) \o req.id,
                 object |-> "chat.completion.chunk",
                 created |-> now,
                 model |-> req.model,
                 choices |-> << [delta |-> [content |-> content], index |-> 0,
                                 finish_reason |-> type] >>]) \o BlankLine)
        ELSE IF req.inboundApi = "openai-text"
        THEN Message(DataPrefix \o JSONstringify(
                [id |-> Text(<<"c", "m", "p", "l", "-">>) \o req.id,
                 object |-> "text_completion",
                 created |-> now,
                 choices |-> << [text |-> content, index |-> 0, logprobs |-> Undefined,
                                 finish_reason |-> type] >>,
                 model |-> req.model]) \o BlankLine)
        ELSE IF req.inboundApi = "anthropic"
        THEN Message(DataPrefix \o JSONstringify(
                [completion |-> content,
                 stop_reason |-> type,
                 truncated |-> FALSE,
                 stop |-> Undefined,
                 model |-> req.model,
                 log_id |-> ProxyRequestId(req.id)]) \o BlankLine)
        ELSE Thrown("PaLM not supported as an inbound API format")

\* faulty variant: the error is never sent as an event of the stream
MidStream_Never(r) == FALSE

\* res.headersSent || res.getHeader("content-type") === "text/event-stream"
MidStream(r) ==
    \/ r.headersSent
    \/ ("content-type" \in DOMAIN r.headers /\ r.headers["content-type"] = "text/event-stream")

\* errorPayload.error?.type?.startsWith("proxy") ? "proxy" : "upstream"
ErrorSource(errorPayload) ==
    IF /\ "error" \in DOMAIN errorPayload
       /\ "type" \in DOMAIN errorPayload.error
       /\ StartsWith(errorPayload.error.type, Text(<<"p", "r", "o", "x", "y">>))
    THEN Text(<<"p", "r", "o", "x", "y">>) ELSE Text(<<"u", "p", "s", "t", "r", "e", "a", "m">>)

\* res.status(statusCode).json(errorPayload); a header set after the headers
\* were sent throws ERR_HTTP_HEADERS_SENT, the status being assigned already
StatusJson(r, statusCode, errorPayload) ==
    IF r.headersSent THEN [r EXCEPT !.statusCode = Some(statusCode)]
    ELSE [r EXCEPT !.statusCode = Some(statusCode),
                   !.headers = MapSet(@, "content-type", "application/json"),
                   !.headersSent = TRUE,
                   !.written = Append(@, JSONstringify(errorPayload)),
                   !.ended = TRUE]

\* `${errorSource} error (${statusCode})`
ErrorTitle(statusCode, errorPayload) ==
    ErrorSource(errorPayload) \o Text(<<" ", "e", "r", "r", "o", "r", " ", "(">>)
        \o Decimal(statusCode) \o Text(<<")">>)

\* errorPayload.error.proxy_tokenizer_debug_info = req.debug, if req.debug
\* and errorPayload.error are set
Debugged(errorPayload, req) ==
    IF "debug" \in DOMAIN req /\ "error" \in DOMAIN errorPayload
    THEN [errorPayload EXCEPT !.error =
            [k \in DOMAIN @ \cup {"proxy_tokenizer_debug_info"} |->
                IF k = "proxy_tokenizer_debug_info" THEN req.debug ELSE @[k]]]
    ELSE errorPayload

\* writeErrorResponse(req, res, statusCode, errorPayload): the response
\* afterwards, and what the call threw or Void
ErrorWritten(r, req, statusCode, errorPayload) ==
    IF MidStream(r)
    THEN LET errorContent ==
                 IF statusCode = 403 THEN JSONstringify(errorPayload)
                 ELSE JSONstringifyIndented(errorPayload)
             msg == buildFakeSseMessage(ErrorTitle(statusCode, errorPayload), errorContent, req)
         IN  IF msg.kind = "error"
             THEN [res |-> r, ret |-> msg]
             ELSE [res |-> [r EXCEPT !.written = @ \o <<msg.text, DataDone \o BlankLine>>,
                                     !.ended = TRUE],
                   ret |-> Void]
    ELSE [res |-> StatusJson(r, statusCode, Debugged(errorPayload, req)),
          ret |-> IF r.headersSent THEN Thrown("ERR_HTTP_HEADERS_SENT") ELSE Void]

writeErrorResponse(statusCode, errorPayload) ==
    /\ handler.phase \in {"idle", "fallback"}
    /\ ~res.ended
    /\ LET written == ErrorWritten(res, handler.req, statusCode, errorPayload)
       IN  res' = written.res /\ ret' = written.ret
    /\ UNCHANGED <<now, upstream, handler>>

\* the errors handleInternalError is called with: the class they are an
\* instance of, and their fields
ZodError(issues, message) ==
    [class |-> "ZodError", name |-> "ZodError", issues |-> issues, message |-> message,
     stack |-> "ZodError: at validate"]
NamedError(name, message) ==
    [class |-> "Error", name |-> name, message |-> message, stack |-> "Error: at proxy"]
NewQuotaExceededError(message, quotaInfo) ==
    [class |-> "QuotaExceededError", name |-> "QuotaExceededError", message |-> message,
     quotaInfo |-> quotaInfo, stack |-> "QuotaExceededError: at applyQuotaLimits"]

proxy_validation_error == Text(<<"p", "r", "o", "x", "y", "_", "v", "a", "l", "i", "d", "a", "t", "i", "o", "n", "_", "e", "r", "r", "o", "r">>)
organization_account_disabled == Text(<<"o", "r", "g", "a", "n", "i", "z", "a", "t", "i", "o", "n", "_", "a", "c", "c", "o", "u", "n", "t", "_", "d", "i", "s", "a", "b", "l", "e", "d">>)
proxy_quota_exceeded == Text(<<"p", "r", "o", "x", "y", "_", "q", "u", "o", "t", "a", "_", "e", "x", "c", "e", "e", "d", "e", "d">>)
proxy_internal_error == Text(<<"p", "r", "o", "x", "y", "_", "i", "n", "t", "e", "r", "n", "a", "l", "_", "e", "r", "r", "o", "r">>)

\* faulty variant: no error is an instance of a class
InstanceOf_Never(err, class) == FALSE

\* err instanceof class
InstanceOf(err, class) == err.class = class

\* the status and the payload handleInternalError chooses for an error
Classified(err) ==
    IF InstanceOf(err, "ZodError")
    THEN [status |-> 400,
          payload |-> [error |->
            [type |-> proxy_validation_error,
             proxy_note |-> "Reverse proxy couldn't validate your request when trying to transform it. Your client may be sending invalid data.",
             issues |-> err.issues, stack |-> err.stack, message |-> err.message]]]
    ELSE IF err.name = "ForbiddenError"
    THEN [status |-> 403,
          payload |-> [error |->
            [type |-> organization_account_disabled, code |-> "policy_violation",
             param |-> Undefined, message |-> err.message]]]
    ELSE IF InstanceOf(err, "QuotaExceededError")
    THEN [status |-> 429,
          payload |-> [error |->
            [type |-> proxy_quota_exceeded, code |-> "quota_exceeded",
             message |-> "You've exceeded your token quota for this model type.",
             info |-> err.quotaInfo, stack |-> err.stack]]]
    ELSE [status |-> 500,
          payload |-> [error |->
            [type |-> proxy_internal_error,
             proxy_note |-> "Reverse proxy encountered an error before it could reach the upstream API.",
             message |-> err.message, stack |-> err.stack]]]

\* handleInternalError(err, req, res): an exception of writeErrorResponse is
\* caught and logged
handleInternalError(err) ==
    /\ handler.phase \in {"idle", "fallback"}
    /\ ~res.ended
    /\ LET c == Classified(err)
       IN  res' = ErrorWritten(res, handler.req, c.status, c.payload).res
    /\ ret' = Void
    /\ UNCHANGED <<now, upstream, handler>>

---------------------------------------------------------------------------
(* The stream handler's state and listeners *)

\* the fields of req the response handlers read
StreamRequest(api, service, inboundApi, isStreaming) ==
    [id |-> Text(<<"1">>), api |-> api, service |-> service, inboundApi |-> inboundApi,
     isStreaming |-> isStreaming, model |-> Text(gpt_4)]

\* the promise handleStreamedResponse returns
NoPromise == [state |-> "none", value |-> Undefined]
Pending == [state |-> "pending", value |-> Undefined]
Resolved(value) == [state |-> "resolved", value |-> Some(value)]
Rejected(reason) == [state |-> "rejected", value |-> Some(reason)]

NewHandler(req) ==
    [req |-> req, phase |-> "idle", fullChunks |-> << >>, chunkBuffer |-> << >>,
     messageBuffer |-> << >>, lastPosition |-> 0, promise |-> NoPromise]

\* proxyRes: status, headers, the bytes of the body, how many were read and
\* where the chunks read ended, and the messages emitted as "full-sse-event"
NewUpstream(statusCode, headers, body) ==
    [statusCode |-> statusCode, headers |-> headers, body |-> body, read |-> 0,
     state |-> "open", emitted |-> << >>, cuts |-> {}]

\* res before anything is sent
NewResponse ==
    [headersSent |-> FALSE, headers |-> << >>, statusCode |-> Undefined,
     written |-> << >>, ended |-> FALSE]

NoRequest == << >>
NoUpstream == NewUpstream(200, << >>, << >>)
NoHandler == NewHandler(StreamRequest("openai", "openai", "openai", FALSE))

\* the headers of an event stream
SseHeaders ==
    [name \in {"content-type", "cache-control", "connection", "x-accel-buffering"} |->
        CASE name = "content-type" -> "text/event-stream"
          [] name = "cache-control" -> "no-cache"
          [] name = "connection" -> "keep-alive"
          [] name = "x-accel-buffering" -> "no"]

\* ": ping\n\n"
Ping == Text(<<":", " ", "p", "i", "n", "g", "\n", "\n">>)

\* the queue's heartbeat for a streaming request that waits: the first one
\* sends the headers of an event stream, each one writes a keep-alive line
heartbeat ==
    /\ handler.phase = "idle"
    /\ handler.req.isStreaming
    /\ ~res.ended
    /\ Len(res.written) < MaxPings
    /\ res' = [res EXCEPT !.headers = IF res.headersSent THEN @ ELSE SseHeaders,
                          !.headersSent = TRUE,
                          !.written = Append(@, Ping)]
    /\ ret' = Void
    /\ UNCHANGED <<now, upstream, handler>>

\* !res.headersSent
HeadersPending(r) == ~r.headersSent

\* the header block: a header set after the headers were sent throws
\* ERR_HTTP_HEADERS_SENT
HeaderBlock(r, proxyHeaders) ==
    IF r.headersSent THEN r
    ELSE [r EXCEPT !.headers = copyHeaders(proxyHeaders,
                                   [name \in (DOMAIN @) \cup (DOMAIN SseHeaders) |->
                                       IF name \in DOMAIN SseHeaders THEN SseHeaders[name]
                                       ELSE @[name]]),
                   !.headersSent = TRUE]

\* faulty variant: only the statuses of client errors fall back
Failed_ClientError(statusCode) == statusCode \in 400..499

\* proxyRes.statusCode !== 200
Failed(statusCode) == statusCode # 200

\* the call of handleStreamedResponse(proxyRes, req, res), up to the
\* registration of the listeners
handleStreamedResponse ==
    /\ handler.phase = "idle"
    /\ ~res.ended
    /\ IF ~handler.req.isStreaming
       THEN /\ handler' = [handler EXCEPT !.phase = "failed",
                              !.promise = Rejected("handleStreamedResponse called for non-streaming request.")]
            /\ ret' = Thrown("handleStreamedResponse called for non-streaming request.")
            /\ UNCHANGED res
       ELSE IF Failed(upstream.statusCode)
       THEN /\ handler' = [handler EXCEPT !.phase = "fallback", !.req.isStreaming = FALSE]
            /\ ret' = Void
            /\ UNCHANGED res
       ELSE IF HeadersPending(res)
       THEN /\ res' = HeaderBlock(res, upstream.headers)
            /\ IF res.headersSent
               THEN /\ ret' = Thrown("ERR_HTTP_HEADERS_SENT")
                    /\ handler' = [handler EXCEPT !.phase = "failed",
                                      !.promise = Rejected("ERR_HTTP_HEADERS_SENT")]
               ELSE /\ ret' = Void
                    /\ handler' = [NewHandler(handler.req) EXCEPT !.phase = "streaming",
                                      !.promise = Pending]
       ELSE /\ handler' = [NewHandler(handler.req) EXCEPT !.phase = "streaming",
                              !.promise = Pending]
            /\ ret' = Void
            /\ UNCHANGED res
    /\ UNCHANGED <<now, upstream>>

\* faulty variant: nothing is held back between two chunks
Held_Nothing(newMessages) == << >>

\* newMessages.pop() || "": the segment after the last separator
Held(newMessages) == newMessages[Len(newMessages)]

\* the "full-sse-event" listener on the locals and the response in st; an
\* exception leaves the listener, and the loop that emits, at once
fullSseEvent(st, data) ==
    IF st.thrown # Undefined THEN st
    ELSE LET t == transformEvent(data, st.handler.req.api, st.handler.req.service,
                                 Len(st.handler.fullChunks))
         IN  IF t.kind = "error"
             THEN [st EXCEPT !.emitted = Append(@, data), !.thrown = Some(t)]
             ELSE [st EXCEPT !.emitted = Append(@, data),
                             !.handler.fullChunks = Append(@, t.event),
                             !.handler.lastPosition = t.position,
                             !.written = Append(@, t.event \o BlankLine)]

\* for (const message of newMessages) proxyRes.emit("full-sse-event", message)
RECURSIVE EmitAll(_, _)
EmitAll(st, messages) ==
    IF messages = << >> THEN st
    ELSE EmitAll(fullSseEvent(st, Head(messages)), Tail(messages))

\* the "data" listener, for a chunk of the next size bytes of the body
onData(size) ==
    /\ handler.phase = "streaming"
    /\ upstream.state = "open"
    /\ upstream.read + size <= Len(upstream.body)
    /\ LET str == SubSeq(upstream.body, upstream.read + 1, upstream.read + size)
           chunkBuffer == Append(handler.chunkBuffer, str)
           split == Split(handler.messageBuffer \o Join(chunkBuffer))
           newMessages == SubSeq(split, 1, Len(split) - 1)
           st == EmitAll([handler |-> [handler EXCEPT !.chunkBuffer = << >>,
                                                       !.messageBuffer = Held(split)],
                          written |-> res.written,
                          emitted |-> upstream.emitted,
                          thrown |-> Undefined],
                         newMessages)
       IN  /\ handler' = st.handler
           /\ res' = [res EXCEPT !.written = st.written]
           /\ upstream' = [upstream EXCEPT !.read = @ + size, !.emitted = st.emitted,
                                         !.cuts = @ \cup {upstream.read + size}]
           /\ ret' = IF st.thrown = Undefined THEN Void ELSE st.thrown[1]
    /\ UNCHANGED now

\* the "end" listener; an exception of convertEventsToFinalResponse leaves it
\* before res.end() and resolve()
onEnd ==
    /\ handler.phase = "streaming"
    /\ upstream.state = "open"
    /\ upstream.read = Len(upstream.body)
    /\ upstream' = [upstream EXCEPT !.state = "ended"]
    /\ LET finalBody == convertEventsToFinalResponse(handler.chunkBuffer,
                                                     handler.req.service, handler.req.id)
       IN  IF finalBody.kind = "error"
           THEN /\ ret' = finalBody
                /\ UNCHANGED <<handler, res>>
           ELSE /\ res' = [res EXCEPT !.ended = TRUE]
                /\ handler' = [handler EXCEPT !.promise = Resolved(finalBody.body)]
                /\ ret' = Void
    /\ UNCHANGED now

\* the "error" listener, for an error with this message
onError(message) ==
    /\ handler.phase = "streaming"
    /\ upstream.state = "open"
    /\ upstream' = [upstream EXCEPT !.state = "errored"]
    /\ LET fakeErrorEvent == buildFakeSseMessage(MidStreamError, message, handler.req)
       IN  IF fakeErrorEvent.kind = "error"
           THEN /\ ret' = fakeErrorEvent
                /\ UNCHANGED <<handler, res>>
           ELSE /\ res' = [res EXCEPT
                              !.written = @ \o
                                  << DataPrefix \o JSONstringifyString(fakeErrorEvent.text) \o BlankLine,
                                     DataDone \o BlankLine >>,
                              !.ended = TRUE]
                /\ handler' = [handler EXCEPT !.promise = Rejected(message)]
                /\ ret' = Void
    /\ UNCHANGED now


---------------------------------------------------------------------------
(* The request pipeline                                                    *)
(* (src/src/proxy/openai.ts, src/src/proxy/openai-image.ts,                *)
(*  src/src/proxy/middleware/request/apply-quota-limits.ts,                *)
(*  src/unnamed/part_000)                                                  *)

OPENAI_CHAT_COMPLETION_ENDPOINT == <<"/", "v", "1", "/", "c", "h", "a", "t", "/", "c", "o", "m", "p", "l", "e", "t", "i", "o", "n", "s">>
OPENAI_TEXT_COMPLETION_ENDPOINT == <<"/", "v", "1", "/", "c", "o", "m", "p", "l", "e", "t", "i", "o", "n", "s">>
ANTHROPIC_COMPLETION_ENDPOINT == <<"/", "v", "1", "/", "c", "o", "m", "p", "l", "e", "t", "e">>
\* the path of openaiImagesRouter.post
IMAGE_GENERATION_ENDPOINT == <<"/", "v", "1", "/", "i", "m", "a", "g", "e", "s", "/", "g", "e", "n", "e", "r", "a", "t", "i", "o", "n", "s">>

\* a body that is an object, and a body that is a buffer of bytes
BodyObject(fields) == [object |-> fields]
BodyBuffer(str) == [buffer |-> str]

\* req as the routers hand it to the queue: body is a reference to an
\* object of heap, log is what the request manager has recorded, original
\* the request as it was received
NewRequest(path, outboundApi, user, promptTokens, headers, fields) ==
    [method |-> "POST", path |-> path, url |-> path, outboundApi |-> outboundApi,
     user |-> user, promptTokens |-> promptTokens, outputTokens |-> Some(1),
     headers |-> headers, body |-> Some(1), heap |-> <<BodyObject(fields)>>,
     rawBody |-> Undefined, log |-> << >>, stage |-> "queued", key |-> Undefined,
     original |-> [headers |-> headers, url |-> path, body |-> BodyObject(fields)]]

\* req.body, and req.body.model
Body(req) == req.heap[req.body[1]]
BodyModel(req) == Body(req).object.model

isCompletionRequest(req) ==
    /\ req.method = "POST"
    /\ \E endpoint \in {OPENAI_CHAT_COMPLETION_ENDPOINT, OPENAI_TEXT_COMPLETION_ENDPOINT,
                        ANTHROPIC_COMPLETION_ENDPOINT} :
            StartsWith(req.path, endpoint)

QuotaExceededError == Thrown("You have exceeded your proxy token quota for this model.")

\* !isCompletionRequest(req) || !req.user
Exempt(req) == ~isCompletionRequest(req) \/ req.user = Undefined

\* applyQuotaLimits(req): what it throws, or Void
applyQuotaLimits(req) ==
    IF Exempt(req) THEN Void
    ELSE LET requestedTokens == Coalesce(req.promptTokens, 0) + Coalesce(req.outputTokens, 0)
         IN  IF ~AvailableQuota(req.user[1], BodyModel(req), requestedTokens)
             THEN QuotaExceededError
             ELSE Void

\* ProxyReqManager: a mutation replaces a header, the body or the URL of the
\* request and records what it replaced
Mutation(target, key, originalValue) ==
    [target |-> target, key |-> key, originalValue |-> originalValue]

setHeader(req, name, value) ==
    LET originalValue == IF name \in DOMAIN req.headers THEN Some(req.headers[name])
                         ELSE Undefined
    IN  [req EXCEPT
            !.headers = [k \in DOMAIN req.headers \cup {name} |->
                            IF k = name THEN value ELSE req.headers[k]],
            !.log = Append(@, Mutation("header", name, originalValue))]

\* the new body is a new object; the body replaced is recorded by reference
setBody(req, newBody) ==
    [req EXCEPT !.heap = Append(@, newBody),
                !.body = Some(Len(req.heap) + 1),
                !.log = Append(@, Mutation("body", "body", req.body))]

setUrl(req, url) ==
    [req EXCEPT !.url = url, !.log = Append(@, Mutation("path", "url", req.url))]

\* one recorded mutation undone
Undo(req, mutation) ==
    CASE mutation.target = "header" ->
            [req EXCEPT !.headers =
                IF mutation.originalValue = Undefined
                THEN [k \in DOMAIN req.headers \ {mutation.key} |-> req.headers[k]]
                ELSE [req.headers EXCEPT ![mutation.key] = mutation.originalValue[1]]]
      [] mutation.target = "body" -> [req EXCEPT !.body = mutation.originalValue]
      [] mutation.target = "path" -> [req EXCEPT !.url = mutation.originalValue]

RECURSIVE UndoAll(_, _)
UndoAll(req, log) ==
    IF log = << >> THEN req
    ELSE UndoAll(Undo(req, log[Len(log)]), SubSeq(log, 1, Len(log) - 1))

\* manager.revert(): the recorded mutations undone, the last one first; the
\* objects that no longer are the body of the request are gone from the heap
revert(req) ==
    LET undone == UndoAll(req, req.log)
    IN  [undone EXCEPT !.log = << >>, !.heap = SubSeq(@, 1, undone.body[1])]

\* the length of the name of a field of a body, of its value as JSON (stream
\* is a boolean, the other fields are strings), and of the body as JSON
NameLength(k) == CASE k = "model" -> 5 [] k = "stream" -> 6 [] k = "prompt" -> 6
ValueLength(k, v) == IF k = "stream" THEN (IF v THEN 4 ELSE 5) ELSE Len(v) + 2

RECURSIVE FieldsLength(_, _)
FieldsLength(object, names) ==
    IF names = {} THEN 0
    ELSE LET k == CHOOSE n \in names : TRUE
         IN  NameLength(k) + 3 + ValueLength(k, object[k])
             + (IF names = {k} THEN 0 ELSE 1 + FieldsLength(object, names \ {k}))

\* Buffer.byteLength(str) of the serialisation of an object
byteLength(str) == 2 + FieldsLength(str[1].json, DOMAIN str[1].json)

\* delete object[name]
Delete(object, name) == [k \in DOMAIN object \ {name} |-> object[k]]

\* delete req.body[name]: the object that is the body loses the field
DeleteInPlace(req, name) ==
    [req EXCEPT !.heap[req.body[1]] = BodyObject(Delete(@.object, name))]

\* finalizeBody(manager), on manager.request
finalizeBody(req) ==
    IF req.method \in {"POST", "PUT", "PATCH"} /\ req.body # Undefined
    THEN LET image == IF req.outboundApi = "openai-image"
                      THEN DeleteInPlace(req, "stream") ELSE req
             chat == IF req.outboundApi = "anthropic-chat"
                     THEN DeleteInPlace(image, "prompt") ELSE image
             updatedBody == JSONstringify(Body(chat).object)
             length == setHeader(chat, "Content-Length", Decimal(byteLength(updatedBody)))
             body == setBody(length, BodyBuffer(updatedBody))
         IN  [body EXCEPT !.rawBody = Some(BodyBuffer(updatedBody))]
    ELSE req

\* addKey: req.key is the key that keyPool.get returned
addKey(req, key) == [req EXCEPT !.key = Some(key.hash)]

\* The rewriters of a proxyReq pipeline, applied in order to req; the first
\* exception (of applyQuotaLimits, or of keyPool.get in addKey) ends the
\* pipeline and the upstream request is destroyed. The rewriters between
\* addKey and finalizeBody leave the key pool, the user store, and the body
\* and the URL of the request alone.
RunPipeline ==
    /\ DOMAIN request # {}
    /\ request.stage = "queued"
    /\ LET quota == applyQuotaLimits(request)
       IN  IF quota.kind = "error"
           THEN /\ request' = [request EXCEPT !.stage = "aborted"]
                /\ ret' = quota
                /\ UNCHANGED <<keys, now, markedAt>>
           ELSE /\ get
                /\ request' = IF ret'.kind = "key"
                              THEN [finalizeBody(addKey(request, ret'.key))
                                        EXCEPT !.stage = "sent"]
                              ELSE [request EXCEPT !.stage = "aborted"]

\* rewriteRequest of the OpenAI router: chat and text completions
rewriteRequest ==
    /\ DOMAIN request # {}
    /\ request.path \in {OPENAI_CHAT_COMPLETION_ENDPOINT, OPENAI_TEXT_COMPLETION_ENDPOINT}
    /\ RunPipeline

\* the proxyReq handler of the image router
openaiImagesProxy ==
    /\ DOMAIN request # {}
    /\ request.path = IMAGE_GENERATION_ENDPOINT
    /\ RunPipeline

\* The parts of the program that a specification does not exercise are as
\* they are at start-up: no events collected, no request between its quota
\* check and its charge, no keys listed, nothing cached, nothing stored
\* remotely and no flush on its way.
NoAggregator == [format |-> "openai", events |-> << >>]
NoCaches == [router \in {"openai", "openai-image", "mistral-ai"} |-> [cache |-> Undefined, time |-> 0]]

AtRest ==
    /\ aggregator = NoAggregator
    /\ inflight = {}
    /\ serviceKeys = << >>
    /\ modelsCaches = NoCaches
    /\ remote = << >>
    /\ flushes = << >>

---------------------------------------------------------------------------
(* EventAggregator                                                         *)
(* (src/src/proxy/middleware/response/streaming/event-aggregator.ts)       *)

\* the formats an aggregator is constructed with
APIFormats ==
    {"openai", "google-ai", "mistral-ai", "openai-text", "anthropic-text",
     "anthropic-chat", "openai-image"}

\* new EventAggregator({ format })
NewAggregator(format) == [format |-> format, events |-> << >>]

\* event?.object === "chat.completion.chunk"
eventIsOpenAIEvent(event) ==
    "object" \in DOMAIN event /\ event.object = "chat.completion.chunk"

\* the transformer of Anthropic events: an event that carries a completion is
\* wrapped in the OpenAI envelope as it is, any other event gives no event
anthropicV2ToOpenAI(params) ==
    LET event == JSONparse(params.data)
    IN  IF "completion" \notin DOMAIN event
        THEN [position |-> -1, event |-> Undefined]
        ELSE [position |-> -1,
              event |-> Some(
                [id |-> params.fallbackId, object |-> "chat.completion.chunk",
                 created |-> now, model |-> params.fallbackModel,
                 choices |-> << [index |-> params.index,
                                 delta |-> [content |-> event.completion],
                                 finish_reason |-> event.stop_reason] >>])]

\* faulty variant: the event is put before the ones collected
Pushed_First(events, event) == <<event>> \o events

\* this.events.push(event)
Pushed(events, event) == Append(events, event)

\* event.log_id || "event-aggregator-fallback", event.model || "claude-3-fallback"
Fallback(event, field, fallback) ==
    IF field \in DOMAIN event THEN event[field] ELSE fallback

\* the events after addEvent(event)
Collected(events, event) ==
    IF eventIsOpenAIEvent(event) THEN Pushed(events, event)
    ELSE LET openAIEvent ==
                anthropicV2ToOpenAI(
                    [data |-> JSONstringify(event), lastPosition |-> -1, index |-> 0,
                     fallbackId |-> Fallback(event, "log_id", "event-aggregator-fallback"),
                     fallbackModel |-> Fallback(event, "model", "claude-3-fallback")])
         IN  IF openAIEvent.event # Undefined
             THEN Pushed(events, openAIEvent.event[1])
             ELSE events

addEvent(event) ==
    /\ aggregator' = [aggregator EXCEPT !.events = Collected(@, event)]
    /\ ret' = Void
    /\ UNCHANGED now

\* the content of the delta of an event, and those of all events one after
\* the other
DeltaContent(event) ==
    IF event.choices # << >> /\ "content" \in DOMAIN event.choices[1].delta
    THEN event.choices[1].delta.content
    ELSE << >>
Contents(events) == Join([i \in 1..Len(events) |-> DeltaContent(events[i])])

\* what the merges have in common: id, created and model of the first event,
\* finish_reason of the last one
Envelope(events) ==
    IF events = << >>
    THEN [id |-> "", created |-> 0, model |-> "", finish_reason |-> Undefined]
    ELSE [id |-> events[1].id, created |-> events[1].created, model |-> events[1].model,
          finish_reason |-> IF events[Len(events)].choices = << >> THEN Undefined
                            ELSE events[Len(events)].choices[1].finish_reason]

\* Chat: the deltas reduced into one message
mergeEventsForOpenAIChat(events) ==
    LET e == Envelope(events)
    IN  [id |-> e.id, object |-> "chat.completion", created |-> e.created, model |-> e.model,
         choices |-> << [index |-> 0,
                         message |-> [role |-> "assistant", content |-> Contents(events)],
                         finish_reason |-> e.finish_reason] >>]

\* Text: the texts one after the other
mergeEventsForOpenAIText(events) ==
    LET e == Envelope(events)
    IN  [id |-> e.id, object |-> "text_completion", created |-> e.created, model |-> e.model,
         choices |-> << [index |-> 0, text |-> Contents(events),
                         finish_reason |-> e.finish_reason, logprobs |-> Undefined] >>]

\* Anthropic text: the complete completion
mergeEventsForAnthropic(events) ==
    LET e == Envelope(events)
    IN  [log_id |-> e.id, model |-> e.model, completion |-> Contents(events),
         stop_reason |-> e.finish_reason, truncated |-> FALSE, stop |-> Undefined,
         exception |-> Undefined]

\* new Error(`SSE aggregation not supported for ${this.format}`)
AggregationNotSupported(format) ==
    Thrown([text |-> "SSE aggregation not supported for", format |-> format])

\* what getFinalResponse returns or throws for an aggregator
FinalResponse(a) ==
    CASE a.format \in {"openai", "google-ai", "mistral-ai"} ->
            Response(mergeEventsForOpenAIChat(a.events))
      [] a.format = "openai-text" -> Response(mergeEventsForOpenAIText(a.events))
      [] a.format = "anthropic-text" -> Response(mergeEventsForAnthropic(a.events))
      [] a.format \in {"anthropic-chat", "openai-image"} -> AggregationNotSupported(a.format)

getFinalResponse ==
    /\ ret' = FinalResponse(aggregator)
    /\ UNCHANGED <<now, aggregator>>

---------------------------------------------------------------------------
(* GET /v1/models                                                          *)
(* (src/src/proxy/openai.ts, src/src/proxy/openai-image.ts,                *)
(*  src/src/proxy/mistral-ai.ts)                                           *)

\* 1000 * 60
MODELS_CACHE_TTL == 60000

knownModels ==
    << <<"g", "p", "t", "-", "4">>,
       <<"g", "p", "t", "-", "4", "-", "0", "6", "1", "3">>,
       <<"g", "p", "t", "-", "4", "-", "0", "3", "1", "4">>,
       <<"g", "p", "t", "-", "4", "-", "3", "2", "k">>,
       <<"g", "p", "t", "-", "4", "-", "3", "2", "k", "-", "0", "6", "1", "3">>,
       <<"g", "p", "t", "-", "4", "-", "3", "2", "k", "-", "0", "3", "1", "4">>,
       <<"g", "p", "t", "-", "3", ".", "5", "-", "t", "u", "r", "b", "o">>,
       <<"g", "p", "t", "-", "3", ".", "5", "-", "t", "u", "r", "b", "o", "-", "0", "3", "0", "1">>,
       <<"g", "p", "t", "-", "3", ".", "5", "-", "t", "u", "r", "b", "o", "-", "0", "6", "1", "3">>,
       <<"g", "p", "t", "-", "3", ".", "5", "-", "t", "u", "r", "b", "o", "-", "1", "6", "k">>,
       <<"g", "p", "t", "-", "3", ".", "5", "-", "t", "u", "r", "b", "o", "-", "1", "6", "k", "-", "0", "6", "1", "3">>,
       <<"g", "p", "t", "-", "3", ".", "5", "-", "t", "u", "r", "b", "o", "-", "i", "n", "s", "t", "r", "u", "c", "t">>,
       <<"g", "p", "t", "-", "3", ".", "5", "-", "t", "u", "r", "b", "o", "-", "i", "n", "s", "t", "r", "u", "c", "t", "-", "0", "9", "1", "4">>,
       <<"t", "e", "x", "t", "-", "e", "m", "b", "e", "d", "d", "i", "n", "g", "-", "a", "d", "a", "-", "0", "0", "2">> >>
KNOWN_MODELS == << <<"d", "a", "l", "l", "-", "e", "-", "2">>, dall_e_3 >>
KNOWN_MISTRAL_AI_MODELS ==
    << <<"o", "p", "e", "n", "-", "m", "i", "s", "t", "r", "a", "l", "-", "n", "e", "m", "o">>,
       <<"o", "p", "e", "n", "-", "m", "i", "s", "t", "r", "a", "l", "-", "n", "e", "m", "o", "-", "2", "4", "0", "7">>,
       <<"m", "i", "s", "t", "r", "a", "l", "-", "l", "a", "r", "g", "e", "-", "l", "a", "t", "e", "s", "t">>,
       <<"m", "i", "s", "t", "r", "a", "l", "-", "l", "a", "r", "g", "e", "-", "2", "4", "0", "7">>,
       <<"m", "i", "s", "t", "r", "a", "l", "-", "l", "a", "r", "g", "e", "-", "2", "4", "0", "2">>,
       <<"c", "o", "d", "e", "s", "t", "r", "a", "l", "-", "l", "a", "t", "e", "s", "t">>,
       <<"c", "o", "d", "e", "s", "t", "r", "a", "l", "-", "2", "4", "0", "5">>,
       <<"o", "p", "e", "n", "-", "m", "i", "s", "t", "r", "a", "l", "-", "7", "b">>,
       <<"o", "p", "e", "n", "-", "m", "i", "x", "t", "r", "a", "l", "-", "8", "x", "7", "b">>,
       <<"o", "p", "e", "n", "-", "m", "i", "s", "t", "r", "a", "l", "-", "8", "x", "2", "2", "b">>,
       <<"o", "p", "e", "n", "-", "c", "o", "d", "e", "s", "t", "r", "a", "l", "-", "m", "a", "m", "b", "a">>,
       <<"m", "i", "s", "t", "r", "a", "l", "-", "s", "m", "a", "l", "l", "-", "l", "a", "t", "e", "s", "t">>,
       <<"m", "i", "s", "t", "r", "a", "l", "-", "s", "m", "a", "l", "l", "-", "2", "4", "0", "2">>,
       <<"m", "i", "s", "t", "r", "a", "l", "-", "m", "e", "d", "i", "u", "m", "-", "l", "a", "t", "e", "s", "t">>,
       <<"m", "i", "s", "t", "r", "a", "l", "-", "m", "e", "d", "i", "u", "m", "-", "2", "3", "1", "2">>,
       <<"m", "i", "s", "t", "r", "a", "l", "-", "t", "i", "n", "y">>,
       <<"m", "i", "s", "t", "r", "a", "l", "-", "t", "i", "n", "y", "-", "2", "3", "1", "2">> >>

\* a key as keyPool.list() shows it to the routers
ServiceKey(service, modelFamilies) ==
    [service |-> service, isDisabled |-> FALSE, modelFamilies |-> modelFamilies]

\* the families of the enabled keys of a service that are allowed
Available(service) ==
    LET available == UNION { serviceKeys[i].modelFamilies :
                               i \in { j \in DOMAIN serviceKeys :
                                         /\ ~serviceKeys[j].isDisabled
                                         /\ serviceKeys[j].service = service } }
    IN  available \cap config.allowedModelFamilies

\* the elements of an array
Range(array) == {array[i] : i \in DOMAIN array}

\* array.filter(keep) on ids
RECURSIVE Filter(_, _)
Filter(ids, kept) ==
    IF ids = << >> THEN << >>
    ELSE (IF Head(ids) \in kept THEN <<Head(ids)>> ELSE << >>) \o Filter(Tail(ids), kept)

\* the family of a Mistral model: the provider's table, by the size the id names
getMistralAIModelFamily(model) ==
    IF IncludesString(model, <<"l", "a", "r", "g", "e">>) THEN "mistral-large"
    ELSE IF IncludesString(model, <<"m", "e", "d", "i", "u", "m">>) THEN "mistral-medium"
    ELSE IF IncludesString(model, <<"s", "m", "a", "l", "l">>) THEN "mistral-small"
    ELSE "mistral-tiny"

\* the entry of a model in the list of the OpenAI router
OpenAIModel(id) ==
    [id |-> id, object |-> "model", created |-> now, owned_by |-> "openai",
     permission |-> << [id |-> <<"m", "o", "d", "e", "l", "p", "e", "r", "m", "-">> \o id,
                        object |-> "model_permission", created |-> now,
                        organization |-> "*", group |-> Undefined, is_blocking |-> FALSE] >>,
     root |-> id, parent |-> Undefined]

ModelList(data) == [object |-> "list", data |-> data]

\* new Date().getTime() - modelsCacheTime < 1000 * 60
CacheValid(cache) == now - cache.time < MODELS_CACHE_TTL

\* res.status(200).json(body), and res.status(200).json() which sends an
\* empty body
Json200(body) ==
    [NewResponse EXCEPT !.statusCode = Some(200), !.headersSent = TRUE,
                        !.headers = MapSet(@, "content-type", "application/json"),
                        !.written = <<JSONstringify(body)>>, !.ended = TRUE]
Empty200 ==
    [NewResponse EXCEPT !.statusCode = Some(200), !.headersSent = TRUE,
                        !.headers = MapSet(@, "content-type", "application/json"),
                        !.written = << << >> >>, !.ended = TRUE]

\* getModelsResponse() of the OpenAI router: the cache afterwards; the value
\* returned is its cache field
getModelsResponse(cache) ==
    IF CacheValid(cache) THEN cache
    ELSE LET available == Available("openai")
             ids == Filter(knownModels,
                           { id \in Range(knownModels) :
                                getOpenAIModelFamily(id, "gpt4") \in available })
         IN  [cache |-> Some(ModelList([i \in 1..Len(ids) |-> OpenAIModel(ids[i])])),
              time |-> now]

\* handleModelRequest of the OpenAI router, for a new response
openaiHandleModelRequest ==
    LET answer == getModelsResponse(modelsCaches["openai"])
    IN  /\ modelsCaches' = [modelsCaches EXCEPT !["openai"] = answer]
        /\ res' = Json200(IF answer.cache = Undefined THEN Undefined ELSE answer.cache[1])
        /\ ret' = Void
        /\ UNCHANGED <<now, serviceKeys>>

\* generateModelList(models) of the Mistral router
generateModelList(models) ==
    LET available == Available("mistral-ai")
        ids == Filter(models, { id \in Range(models) :
                                   getMistralAIModelFamily(id) \in available })
    IN  [i \in 1..Len(ids) |->
            [id |-> ids[i], object |-> "model", created |-> now, owned_by |-> "mistral-ai"]]

\* handleModelRequest of the Mistral router
mistralHandleModelRequest ==
    /\ IF CacheValid(modelsCaches["mistral-ai"])
       THEN /\ res' = Json200(IF modelsCaches["mistral-ai"].cache = Undefined THEN Undefined
                              ELSE modelsCaches["mistral-ai"].cache[1])
            /\ UNCHANGED modelsCaches
       ELSE LET result == generateModelList(KNOWN_MISTRAL_AI_MODELS)
            IN  /\ modelsCaches' = [modelsCaches EXCEPT !["mistral-ai"] =
                                       [cache |-> Some(ModelList(result)), time |-> now]]
                /\ res' = Json200(ModelList(result))
    /\ ret' = Void
    /\ UNCHANGED <<now, serviceKeys>>

\* generateModelList(models) as the image router imports it from the OpenAI
\* router: the models whose family an enabled and allowed OpenAI key serves
openaiGenerateModelList(models) ==
    LET available == Available("openai")
        ids == Filter(models, { id \in Range(models) :
                                   getOpenAIModelFamily(id, "gpt4") \in available })
    IN  [i \in 1..Len(ids) |-> OpenAIModel(ids[i])]

\* handleModelRequest of the image router
imageHandleModelRequest ==
    /\ IF CacheValid(modelsCaches["openai-image"])
       THEN /\ res' = NewResponse
            /\ ret' = Returned(modelsCaches["openai-image"].cache)
            /\ UNCHANGED modelsCaches
       ELSE LET result == openaiGenerateModelList(KNOWN_MODELS)
            IN  /\ modelsCaches' = [modelsCaches EXCEPT !["openai-image"] =
                                       [cache |-> Some(ModelList(result)), time |-> now]]
                /\ res' = Empty200
                /\ ret' = Void
    /\ UNCHANGED <<now, serviceKeys>>

---------------------------------------------------------------------------
(* Calls of the classifier (src/src/shared/models.ts) *)

\* what a call of a classifier returned, with its arguments
Family(model, family) == [kind |-> "family", model |-> model, family |-> family]

\* a call of getOpenAIModelFamily(model, defaultFamily)
callOpenAIModelFamily(model, defaultFamily) ==
    /\ ret' = [Family(model, getOpenAIModelFamily(model, defaultFamily))
                  EXCEPT !.kind = "openai-family"]
    /\ UNCHANGED now

\* a call of getClaudeModelFamily(model)
callClaudeModelFamily(model) ==
    /\ ret' = Family(model, getClaudeModelFamily(model))
    /\ UNCHANGED now

---------------------------------------------------------------------------
(* Requests between their quota check and their charge *)

\* a request of the user with this token, for requested tokens of a model
InFlight(id, token, model, requested) ==
    [id |-> id, token |-> token, model |-> model, requested |-> requested]

\* applyQuotaLimits for one of several requests that are served at a time: the
\* request passes the check and goes on to the upstream, or is rejected
admit(id, token, model, requested) ==
    /\ \A r \in inflight : r.id # id
    /\ IF AvailableQuota(token, model, requested)
       THEN /\ inflight' = inflight \cup {InFlight(id, token, model, requested)}
            /\ ret' = Void
       ELSE /\ ret' = QuotaExceededError
            /\ UNCHANGED inflight
    /\ UNCHANGED <<now, config, users, usersToFlush, aggregator>>

\* the response of a request has arrived: the tokens it consumed are charged
settle(r, consumption) ==
    /\ r \in inflight
    /\ incrementTokenCount(r.token, r.model, consumption)
    /\ inflight' = inflight \ {r}
    /\ UNCHANGED aggregator

---------------------------------------------------------------------------
(* flushUsers and the remote store (user-store.ts) *)

\* A run of flushUsers awaits usersRef.update(updates) and then the removals
\* of its deletions.  The remote store serves the writes of the process in the
\* order they were sent: flushes holds the writes sent and not yet served,
\* each with what its run does once it is served.
UpdateSent(updates, deletions) ==
    [op |-> "update", updates |-> updates, deletions |-> deletions]
RemovalsSent(deletions) ==
    [op |-> "remove", updates |-> << >>, deletions |-> deletions]

\* the tokens a pending write belongs to
Flushing(write) == (DOMAIN write.updates) \cup write.deletions

\* the dirty tokens that have no user any more
Deletions(dirty, map) == dirty \ DOMAIN map

\* the dirty users, as they are when the update is sent
Updates(dirty, map) == [token \in dirty \cap DOMAIN map |-> map[token]]

\* flushUsers up to its first await
flushUsers ==
    LET updates == Updates(usersToFlush, users)
        deletions == Deletions(usersToFlush, users)
        numUpdates == Cardinality(DOMAIN updates) + Cardinality(deletions)
    IN  /\ usersToFlush' = {}
        /\ flushes' = IF numUpdates = 0 THEN flushes
                      ELSE Append(flushes, UpdateSent(updates, deletions))
        /\ ret' = Void
        /\ UNCHANGED <<now, config, users, remote>>

\* usersRef.update(updates): the children named are replaced, the others kept
Updated(store, updates) ==
    [token \in (DOMAIN store) \cup (DOMAIN updates) |->
        IF token \in DOMAIN updates THEN updates[token] ELSE store[token]]

\* usersRef.child(token).remove(), for every deletion
Removed(store, deletions) == [token \in (DOMAIN store) \ deletions |-> store[token]]

\* the remote store serves the oldest write and the run that awaits it goes
\* on: after its update it sends its removals, after those it is done
served ==
    /\ flushes # << >>
    /\ LET write == Head(flushes)
       IN  IF write.op = "update"
           THEN /\ remote' = Updated(remote, write.updates)
                /\ flushes' = IF write.deletions = {} THEN Tail(flushes)
                              ELSE Append(Tail(flushes), RemovalsSent(write.deletions))
           ELSE /\ remote' = Removed(remote, write.deletions)
                /\ flushes' = Tail(flushes)
    /\ ret' = Void
    /\ UNCHANGED <<now, config, users, usersToFlush>>

\* the remote store fails the oldest write: the await throws, flushUsers has
\* no handler and the run ends there
rejected ==
    /\ flushes # << >>
    /\ flushes' = Tail(flushes)
    /\ ret' = Thrown("flushUsers")
    /\ UNCHANGED <<now, config, users, usersToFlush, remote>>

---------------------------------------------------------------------------
(* Specifications *)

\* no selection recorded
NoSelections == [n |-> 0, picks |-> [h \in Hashes |-> 0]]

Init ==
    /\ keys = [h \in Hashes |-> NewKey(h)]
    /\ now = StartTime
    /\ ret = Void
    /\ markedAt = [h \in Hashes |-> 0]
    /\ window = NoSelections
    /\ config = [maxIpsPerUser |-> 0, tokenQuota |-> TokenQuota]
    /\ users = << >>
    /\ usersToFlush = {}
    /\ request = NoRequest
    /\ upstream = NoUpstream
    /\ handler = NoHandler
    /\ res = NewResponse
    /\ AtRest

AnyHash == Hashes \cup {UnknownHash}

\* Spec: any sequence of calls on the provider over the whole time horizon.
\* lastChecked is written by update alone and read by no method; here every
\* update carries its own lastChecked, and the pool counts MaxPrompts prompts.
RatePartials == {p \in Partials : "lastChecked" \in DOMAIN p}
PromptsFrom(ks, i) ==
    LET F[j \in 1..(NumKeys + 1)] ==
            IF j > NumKeys THEN 0 ELSE ks[j].promptCount + F[j + 1]
    IN F[i]
PoolPrompts == PromptsFrom(keys, 1)

Next ==
    \/ get /\ UNCHANGED window /\ UNCHANGED storeVars /\ UNCHANGED proxyVars /\ UNCHANGED lateVars
    \/ \E h \in AnyHash : disable(h) /\ UNCHANGED window /\ UNCHANGED storeVars /\ UNCHANGED proxyVars /\ UNCHANGED lateVars
    \/ \E h \in AnyHash, p \in RatePartials : update(h, p) /\ UNCHANGED window /\ UNCHANGED storeVars /\ UNCHANGED proxyVars /\ UNCHANGED lateVars
    \/ \E h \in AnyHash : PoolPrompts < MaxPrompts /\ incrementUsage(h, MaxTokens) /\ UNCHANGED window /\ UNCHANGED storeVars /\ UNCHANGED proxyVars /\ UNCHANGED lateVars
    \/ \E h \in AnyHash : markRateLimited(h) /\ UNCHANGED markedAt /\ UNCHANGED window /\ UNCHANGED storeVars /\ UNCHANGED proxyVars /\ UNCHANGED lateVars
    \/ getLockoutPeriod /\ UNCHANGED window /\ UNCHANGED storeVars /\ UNCHANGED proxyVars /\ UNCHANGED lateVars
    \/ Tick(MaxTime) /\ UNCHANGED window /\ UNCHANGED storeVars /\ UNCHANGED proxyVars /\ UNCHANGED lateVars

Spec == Init /\ [][Next]_vars

\* SpecUsage: the same calls with every update and every token amount, over a
\* short time horizon (the bookkeeping fields do not depend on the clock's range).
NextUsage ==
    \/ get /\ UNCHANGED window /\ UNCHANGED storeVars /\ UNCHANGED proxyVars /\ UNCHANGED lateVars
    \/ \E h \in AnyHash : disable(h) /\ UNCHANGED window /\ UNCHANGED storeVars /\ UNCHANGED proxyVars /\ UNCHANGED lateVars
    \/ \E h \in AnyHash, p \in Partials : update(h, p) /\ UNCHANGED window /\ UNCHANGED storeVars /\ UNCHANGED proxyVars /\ UNCHANGED lateVars
    \/ \E h \in AnyHash, n \in 0..MaxTokens : incrementUsage(h, n) /\ UNCHANGED window /\ UNCHANGED storeVars /\ UNCHANGED proxyVars /\ UNCHANGED lateVars
    \/ \E h \in AnyHash : markRateLimited(h) /\ UNCHANGED markedAt /\ UNCHANGED window /\ UNCHANGED storeVars /\ UNCHANGED proxyVars /\ UNCHANGED lateVars
    \/ getLockoutPeriod /\ UNCHANGED window /\ UNCHANGED storeVars /\ UNCHANGED proxyVars /\ UNCHANGED lateVars
    \/ Tick(StartTime + KEY_REUSE_DELAY) /\ UNCHANGED window /\ UNCHANGED storeVars /\ UNCHANGED proxyVars /\ UNCHANGED lateVars

SpecUsage == Init /\ [][NextUsage]_vars

\* SpecQueue: the calls of Spec, with get called by a dispatcher that first asks
\* for the lockout period and selects a key only when it is 0.

\* the history of markRateLimited calls, after one on hash h at the current time
Marked(h) == IF Find(h) = 0 THEN markedAt ELSE [markedAt EXCEPT ![h] = now]

dispatch ==
    /\ LockoutPeriod(keys, now) = 0
    /\ get

NextQueue ==
    \/ dispatch /\ UNCHANGED window /\ UNCHANGED storeVars /\ UNCHANGED proxyVars /\ UNCHANGED lateVars
    \/ \E h \in AnyHash : disable(h) /\ UNCHANGED window /\ UNCHANGED storeVars /\ UNCHANGED proxyVars /\ UNCHANGED lateVars
    \/ \E h \in AnyHash, p \in RatePartials : update(h, p) /\ UNCHANGED window /\ UNCHANGED storeVars /\ UNCHANGED proxyVars /\ UNCHANGED lateVars
    \/ \E h \in AnyHash : PoolPrompts < MaxPrompts /\ incrementUsage(h, MaxTokens) /\ UNCHANGED window /\ UNCHANGED storeVars /\ UNCHANGED proxyVars /\ UNCHANGED lateVars
    \/ \E h \in AnyHash : markRateLimited(h) /\ markedAt' = Marked(h) /\ UNCHANGED window /\ UNCHANGED storeVars /\ UNCHANGED proxyVars /\ UNCHANGED lateVars
    \/ getLockoutPeriod /\ UNCHANGED window /\ UNCHANGED storeVars /\ UNCHANGED proxyVars /\ UNCHANGED lateVars
    \/ Tick(MaxTime) /\ UNCHANGED window /\ UNCHANGED storeVars /\ UNCHANGED proxyVars /\ UNCHANGED lateVars

SpecQueue == Init /\ [][NextQueue]_vars

\* SpecUpdate: update with every partial, between calls of get and
\* incrementUsage, over a short time horizon.
NextUpdate ==
    \/ get /\ UNCHANGED window /\ UNCHANGED storeVars /\ UNCHANGED proxyVars /\ UNCHANGED lateVars
    \/ \E h \in AnyHash, p \in Partials : update(h, p) /\ UNCHANGED window /\ UNCHANGED storeVars /\ UNCHANGED proxyVars /\ UNCHANGED lateVars
    \/ \E h \in AnyHash : PoolPrompts < MaxPrompts /\ incrementUsage(h, MaxTokens) /\ UNCHANGED window /\ UNCHANGED storeVars /\ UNCHANGED proxyVars /\ UNCHANGED lateVars
    \/ Tick(StartTime + KEY_REUSE_DELAY) /\ UNCHANGED window /\ UNCHANGED storeVars /\ UNCHANGED proxyVars /\ UNCHANGED lateVars

SpecUpdate == Init /\ [][NextUpdate]_vars

\* SpecFair: get, disable and the clock alone (no markRateLimited), with the
\* selections of get counted per key over a window of consecutive calls.  The
\* window may be reopened at any time, and is reopened when the set of enabled
\* keys changes.

\* the window after the call of get that has just set ret
Selected ==
    IF ret'.kind = "key"
    THEN [n |-> window.n + 1,
          picks |-> [window.picks EXCEPT ![ret'.key.hash] = @ + 1]]
    ELSE window

select ==
    /\ window.n < MaxGets
    /\ get
    /\ window' = Selected

reopen ==
    /\ window # NoSelections
    /\ window' = NoSelections
    /\ ret' = Void
    /\ UNCHANGED <<keys, now, markedAt>>

NextFair ==
    \/ select /\ UNCHANGED storeVars /\ UNCHANGED proxyVars /\ UNCHANGED lateVars
    \/ \E h \in AnyHash : disable(h) /\ window' = NoSelections /\ UNCHANGED storeVars /\ UNCHANGED proxyVars /\ UNCHANGED lateVars
    \/ reopen /\ UNCHANGED storeVars /\ UNCHANGED proxyVars /\ UNCHANGED lateVars
    \/ Tick(MaxTime) /\ UNCHANGED window /\ UNCHANGED storeVars /\ UNCHANGED proxyVars /\ UNCHANGED lateVars

SpecFair == Init /\ [][NextFair]_vars

\* SpecAuth: users are created, authenticate from any address, and are disabled
\* by the administrator; the limit of addresses is 0 (none) or MaxIps.
InitStore ==
    /\ keys = [h \in Hashes |-> NewKey(h)]
    /\ now = StartTime
    /\ ret = Void
    /\ markedAt = [h \in Hashes |-> 0]
    /\ window = NoSelections
    /\ config \in Configs
    /\ users = << >>
    /\ usersToFlush = {}
    /\ request = NoRequest
    /\ upstream = NoUpstream
    /\ handler = NoHandler
    /\ res = NewResponse
    /\ AtRest

\* a time after every time the clock reaches
Later == MaxTime + KEY_REUSE_DELAY

CreateOptions ==
    { << >>, [type |-> "normal"], [type |-> "special"], [type |-> "temporary"],
      [type |-> "temporary", expiresAt |-> Later] }

\* under SpecAuth users are created normal or special
AuthOptions == { o \in CreateOptions : Option(o, "type") # Some("temporary") }

NextAuth ==
    \/ \E o \in AuthOptions : createUser(o) /\ UNCHANGED poolVars /\ UNCHANGED proxyVars /\ UNCHANGED lateVars
    \/ \E t \in AnyToken, ip \in Ips : authenticate(t, ip) /\ UNCHANGED poolVars /\ UNCHANGED proxyVars /\ UNCHANGED lateVars
    \/ \E t \in AnyToken : disableUser(t, Undefined) /\ UNCHANGED poolVars /\ UNCHANGED proxyVars /\ UNCHANGED lateVars
    \/ Tick(StartTime + KEY_REUSE_DELAY) /\ UNCHANGED window /\ UNCHANGED storeVars /\ UNCHANGED proxyVars /\ UNCHANGED lateVars

SpecAuth == InitStore /\ [][NextAuth]_vars

\* SpecAdmin: the calls of SpecAuth from a single address, and the
\* administrator's upserts of type, expiry and disabling.
UserUpdates ==
    { [token |-> t, set |-> u, del |-> {}] :
        t \in Tokens,
        u \in { [type |-> "normal"], [type |-> "special"], [type |-> "temporary"],
                [type |-> "temporary", expiresAt |-> Some(Later)],
                [expiresAt |-> Some(Later)] } }
    \cup { [token |-> t, set |-> << >>, del |-> d] :
        t \in Tokens, d \in { {"expiresAt"}, {"disabledAt", "disabledReason"} } }

NextAdmin ==
    \/ \E o \in CreateOptions : createUser(o) /\ UNCHANGED poolVars /\ UNCHANGED proxyVars /\ UNCHANGED lateVars
    \/ \E u \in UserUpdates : upsertUser(u) /\ UNCHANGED poolVars /\ UNCHANGED proxyVars /\ UNCHANGED lateVars
    \/ \E t \in AnyToken : authenticate(t, 1) /\ UNCHANGED poolVars /\ UNCHANGED proxyVars /\ UNCHANGED lateVars
    \/ \E t \in AnyToken : disableUser(t, Undefined) /\ UNCHANGED poolVars /\ UNCHANGED proxyVars /\ UNCHANGED lateVars

SpecAdmin == InitStore /\ [][NextAdmin]_vars


\* SpecQuota: users with the configured limits are charged for models of
\* every family that tokens are counted under, between authentications, quota
\* checks, prompt counts and quota refreshes.  No limit of addresses is
\* configured; the store counts MaxTokens tokens and MaxPrompts prompts over
\* all users.  SpecCheck adds special users and users with limits of their own.
OwnLimits == [f \in MODEL_FAMILIES |-> IF f = "gpt4" THEN Some(1) ELSE Undefined]

QuotaOptions == { << >>, [type |-> "special"], [tokenLimits |-> OwnLimits] }

\* one model id for each family that tokens are counted under
QuotaModels ==
    { m \in SupportedModels :
        m.id \in {gpt_4_1106_preview, gpt_4_32k_0613, gpt_3_5_turbo_instruct,
                  text_bison_001} }

\* the tokens and the prompts counted in the store, over all users
StoreTokens ==
    LET RECURSIVE Sum(_)
        Sum(T) == IF T = {} THEN 0
                  ELSE LET t == CHOOSE x \in T : TRUE
                       IN  SumOver(users[t].tokenCounts, MODEL_FAMILIES) + Sum(T \ {t})
    IN  Sum(DOMAIN users)
StorePrompts ==
    LET RECURSIVE Sum(_)
        Sum(T) == IF T = {} THEN 0
                  ELSE LET t == CHOOSE x \in T : TRUE
                       IN  users[t].promptCount + Sum(T \ {t})
    IN  Sum(DOMAIN users)

NextQuota ==
    \/ createUser(<< >>) /\ UNCHANGED poolVars /\ UNCHANGED proxyVars /\ UNCHANGED lateVars
    \/ \E t \in Tokens : authenticate(t, 1) /\ UNCHANGED poolVars /\ UNCHANGED proxyVars /\ UNCHANGED lateVars
    \/ \E t \in Tokens, m \in QuotaModels :
            hasAvailableQuota(t, m.id, 1) /\ UNCHANGED poolVars /\ UNCHANGED proxyVars /\ UNCHANGED lateVars
    \/ \E t \in AnyToken :
            StorePrompts < MaxPrompts /\ incrementPromptCount(t) /\ UNCHANGED poolVars /\ UNCHANGED proxyVars /\ UNCHANGED lateVars
    \/ \E t \in AnyToken, m \in QuotaModels, c \in 1..MaxTokens :
            /\ StoreTokens + c <= MaxTokens
            /\ incrementTokenCount(t, m.id, c)
            /\ UNCHANGED poolVars /\ UNCHANGED proxyVars /\ UNCHANGED lateVars
    \/ \E t \in AnyToken : refreshQuota(t) /\ UNCHANGED poolVars /\ UNCHANGED proxyVars /\ UNCHANGED lateVars

SpecQuota == Init /\ [][NextQuota]_vars

\* SpecCheck: the users of SpecQuota are charged one token at a time, have
\* their quota refreshed, and are checked for every amount of tokens.
NextCheck ==
    \/ \E o \in QuotaOptions : createUser(o) /\ UNCHANGED poolVars /\ UNCHANGED proxyVars /\ UNCHANGED lateVars
    \/ \E t \in AnyToken, m \in QuotaModels, r \in 0..MaxTokens :
            hasAvailableQuota(t, m.id, r) /\ UNCHANGED poolVars /\ UNCHANGED proxyVars /\ UNCHANGED lateVars
    \/ \E t \in Tokens, m \in QuotaModels :
            /\ StoreTokens + 1 <= MaxTokens
            /\ incrementTokenCount(t, m.id, 1)
            /\ UNCHANGED poolVars /\ UNCHANGED proxyVars /\ UNCHANGED lateVars
    \/ \E t \in Tokens : refreshQuota(t) /\ UNCHANGED poolVars /\ UNCHANGED proxyVars /\ UNCHANGED lateVars

SpecCheck == Init /\ [][NextCheck]_vars

\* SpecFamily: users with the configured limits are charged for, and checked
\* against, every supported model id.
NextFamily ==
    \/ createUser(<< >>) /\ UNCHANGED poolVars /\ UNCHANGED proxyVars /\ UNCHANGED lateVars
    \/ \E t \in Tokens, m \in SupportedModels, r \in 1..MaxTokens :
            hasAvailableQuota(t, m.id, r) /\ UNCHANGED poolVars /\ UNCHANGED proxyVars /\ UNCHANGED lateVars
    \/ \E t \in Tokens, m \in SupportedModels, c \in 1..MaxTokens :
            incrementTokenCount(t, m.id, c) /\ UNCHANGED poolVars /\ UNCHANGED proxyVars /\ UNCHANGED lateVars

SpecFamily == Init /\ [][NextFamily]_vars

\* SpecCleanup: users of every type are created, disabled by the administrator
\* and cleaned up by the cron job, while half days pass.
NextCleanup ==
    \/ \E o \in CreateOptions : createUser(o) /\ UNCHANGED poolVars /\ UNCHANGED proxyVars /\ UNCHANGED lateVars
    \/ \E t \in Tokens : disableUser(t, Undefined) /\ UNCHANGED poolVars /\ UNCHANGED proxyVars /\ UNCHANGED lateVars
    \/ cleanupExpiredTokens /\ UNCHANGED poolVars /\ UNCHANGED proxyVars /\ UNCHANGED lateVars
    \/ Elapse(StartTime + MaxTicks * HalfDay) /\ UNCHANGED poolVars /\ UNCHANGED proxyVars /\ UNCHANGED lateVars

SpecCleanup == Init /\ [][NextCleanup]_vars

\* SpecSplit: a streamed response whose dialect is the client's, for every
\* body of at most MaxStream bytes and every way of cutting it into chunks.
Bytes == {Ch("a"), LF}
RECURSIVE Bodies(_)
Bodies(n) ==
    IF n = 0 THEN {<< >>}
    ELSE LET shorter == Bodies(n - 1)
         IN  shorter \cup {Append(b, c) : b \in {s \in shorter : Len(s) = n - 1}, c \in Bytes}

\* the headers of the upstream response
ProxyHeaders ==
    [name \in {"content-type", "content-length", "x-request-id"} |->
        CASE name = "content-type" -> "text/event-stream"
          [] name = "content-length" -> "0"
          [] name = "x-request-id" -> "upstream-1"]

\* the messages of upstream errors
ErrorMessages == {Text(<<"E">>)}

InitProxy(requests, statuses, bodies) ==
    /\ keys = [h \in Hashes |-> NewKey(h)]
    /\ now = StartTime
    /\ ret = Void
    /\ markedAt = [h \in Hashes |-> 0]
    /\ window = NoSelections
    /\ config = [maxIpsPerUser |-> 0, tokenQuota |-> TokenQuota]
    /\ users = << >>
    /\ usersToFlush = {}
    /\ request = NoRequest
    /\ upstream \in {NewUpstream(s, ProxyHeaders, b) : s \in statuses, b \in bodies}
    /\ handler \in {NewHandler(r) : r \in requests}
    /\ res = NewResponse
    /\ AtRest

\* what a stream listener leaves alone
StreamFrame ==
    UNCHANGED poolVars /\ UNCHANGED storeVars /\ UNCHANGED request /\ UNCHANGED lateVars

InitSplit ==
    InitProxy({StreamRequest("openai", "openai", "openai", TRUE)}, {200}, Bodies(MaxStream))

NextSplit ==
    \/ heartbeat /\ StreamFrame
    \/ handleStreamedResponse /\ StreamFrame
    \/ \E size \in 1..MaxStream : onData(size) /\ StreamFrame
    \/ onEnd /\ StreamFrame
    \/ \E m \in ErrorMessages : onError(m) /\ StreamFrame

SpecSplit == InitSplit /\ [][NextSplit]_vars

\* SpecStream: streamed responses of OpenAI and of Anthropic, complete or cut
\* short, with and without the terminator of the upstream, read in chunks
\* that end inside or after an event; upstream errors at any point, and
\* error responses of the proxy before the stream starts.

\* an event of an OpenAI chat stream
OpenAIChunk(delta, finish_reason) ==
    [id |-> "chatcmpl-7", object |-> "chat.completion.chunk", created |-> 1,
     model |-> "gpt-4",
     choices |-> << [index |-> 0, delta |-> delta, finish_reason |-> finish_reason] >>]

\* an event of an Anthropic stream: the completion so far
AnthropicEvent(completion, stop_reason) ==
    [completion |-> completion, stop_reason |-> stop_reason, truncated |-> FALSE,
     stop |-> Undefined, model |-> "claude-2", log_id |-> Text(<<"7">>)]

He == Text(<<"H", "e">>)
Hello == Text(<<"H", "e", "l", "l", "o">>)
HelloWorld == Text(<<"H", "e", "l", "l", "o", " ", "w", "o", "r", "l", "d">>)

\* complete streams, event by event
OpenAIEvents ==
    { << OpenAIChunk([role |-> "assistant", content |-> << >>], Undefined),
         OpenAIChunk([content |-> He], Undefined),
         OpenAIChunk([content |-> Text(<<"l", "l", "o">>)], Undefined),
         OpenAIChunk(<< >>, Some("stop")) >>,
      << OpenAIChunk([role |-> "assistant", content |-> He], Undefined),
         OpenAIChunk([content |-> Text(<<"l", "l", "o">>)], Some("stop")) >> }

AnthropicEvents ==
    { << AnthropicEvent(He, Undefined),
         AnthropicEvent(Hello, Undefined),
         AnthropicEvent(HelloWorld, Some("stop_sequence")) >> }

\* "data: <json>\n\n" for each event
RECURSIVE Wire(_)
Wire(events) ==
    IF events = << >> THEN << >>
    ELSE DataPrefix \o JSONstringify(Head(events)) \o BlankLine \o Wire(Tail(events))

\* the bodies an upstream sends: the first events of a stream, followed or
\* not by its terminator
StreamBodies(service) ==
    LET streams == IF service = "openai" THEN OpenAIEvents ELSE AnthropicEvents
    IN  UNION { { Wire(SubSeq(s, 1, n)) \o terminator :
                    n \in 0..(IF Len(s) < MaxEvents THEN Len(s) ELSE MaxEvents),
                    terminator \in {<< >>, DataDone \o BlankLine} } : s \in streams }

\* the sizes of the chunks read: less than an event, and an event
ChunkSizes == {Len(DataPrefix) - 1, Len(DataPrefix) + 1 + Len(BlankLine)}

StreamRequests ==
    { StreamRequest(api, service, api, TRUE) : api \in {"openai", "anthropic"},
                                                service \in {"openai", "anthropic"} }
    \cup { StreamRequest("openai", "openai", inboundApi, TRUE) :
             inboundApi \in {"openai-text", "google-palm"} }
    \cup { StreamRequest("openai-text", "anthropic", "openai-text", TRUE) }

\* the payloads of error responses and their statuses
ErrorPayloads ==
    { [error |-> [type |-> Text(<<"p", "r", "o", "x", "y", "_", "i", "n", "t", "e", "r", "n", "a", "l", "_", "e", "r", "r", "o", "r">>), message |-> Text(<<"E">>)]],
      [error |-> [type |-> Text(<<"i", "n", "v", "a", "l", "i", "d", "_", "r", "e", "q", "u", "e", "s", "t", "_", "e", "r", "r", "o", "r">>), message |-> Text(<<"E">>)]] }
ErrorStatuses == {403, 500}

InitStream ==
    /\ InitProxy(StreamRequests, {200} \cup ErrorStatuses,
                 StreamBodies("openai") \cup StreamBodies("anthropic"))
    /\ IF upstream.statusCode = 200
       THEN upstream.body \in StreamBodies(handler.req.service)
       ELSE upstream.body = << >>

NextStream ==
    \/ heartbeat /\ StreamFrame
    \/ handleStreamedResponse /\ StreamFrame
    \/ \E size \in ChunkSizes : onData(size) /\ StreamFrame
    \/ onEnd /\ StreamFrame
    \/ \E m \in ErrorMessages : onError(m) /\ StreamFrame
    \/ \E p \in ErrorPayloads :
            upstream.statusCode # 200 /\ writeErrorResponse(upstream.statusCode, p) /\ StreamFrame

SpecStream == InitStream /\ [][NextStream]_vars

\* SpecGate: users with a quota of Quota tokens on every family send chat,
\* text and image requests of one output token and of no or Quota prompt
\* tokens; a request is received when the one before it has left the pipeline.
GateQuota == [f \in MODEL_FAMILIES |-> Some(Quota)]

InboundHeaders == [name \in {"content-type"} |-> Text(<<"a", "p", "p", "l", "i", "c", "a", "t", "i", "o", "n", "/", "j", "s", "o", "n">>)]

GateRoutes ==
    { [path |-> OPENAI_CHAT_COMPLETION_ENDPOINT, outboundApi |-> "openai", model |-> gpt_4],
      [path |-> OPENAI_TEXT_COMPLETION_ENDPOINT, outboundApi |-> "openai-text",
       model |-> gpt_3_5_turbo_instruct],
      [path |-> IMAGE_GENERATION_ENDPOINT, outboundApi |-> "openai-image", model |-> dall_e_3] }

GateRequests ==
    { NewRequest(route.path, route.outboundApi, user, Some(n), InboundHeaders,
                 [model |-> route.model]) :
        route \in GateRoutes, user \in {Undefined} \cup {Some(t) : t \in Tokens},
        n \in {0, Quota} }

\* a request passes the routers, from an existing user or from nobody
arrive(req) ==
    /\ IF DOMAIN request = {} THEN TRUE ELSE request.stage # "queued"
    /\ IF req.user = Undefined THEN TRUE ELSE req.user[1] \in DOMAIN users
    /\ request' = req
    /\ ret' = Void
    /\ UNCHANGED now

InitGate ==
    /\ keys = [h \in Hashes |-> NewKey(h)]
    /\ now = StartTime
    /\ ret = Void
    /\ markedAt = [h \in Hashes |-> 0]
    /\ window = NoSelections
    /\ config = [maxIpsPerUser |-> 0, tokenQuota |-> GateQuota]
    /\ users = << >>
    /\ usersToFlush = {}
    /\ request = NoRequest
    /\ upstream = NoUpstream
    /\ handler = NoHandler
    /\ res = NewResponse
    /\ AtRest

\* what a step of the pipeline leaves alone
PipelineFrame ==
    /\ UNCHANGED window /\ UNCHANGED storeVars
    /\ UNCHANGED <<upstream, handler, res>> /\ UNCHANGED lateVars

NextGate ==
    \/ \E o \in {<< >>, [type |-> "special"]} :
            createUser(o) /\ UNCHANGED poolVars /\ UNCHANGED proxyVars /\ UNCHANGED lateVars
    \/ \E req \in GateRequests :
            arrive(req) /\ UNCHANGED <<keys, markedAt>> /\ PipelineFrame
    \/ rewriteRequest /\ PipelineFrame
    \/ openaiImagesProxy /\ PipelineFrame

SpecGate == InitGate /\ [][NextGate]_vars

\* SpecRevert: requests of the three outbound dialects, with and without the
\* stream and prompt fields, pass mutators that call the request manager and
\* then finalizeBody, are sent, and are returned to the queue with their
\* mutations reverted.
MaxMutations == 2

secret == Text(<<"k">>)
prompt == <<"H", "i">>

RevertBodies ==
    UNION { { [model |-> gpt_4], [model |-> gpt_4, stream |-> s],
              [model |-> gpt_4, prompt |-> prompt],
              [model |-> gpt_4, stream |-> s, prompt |-> prompt] } : s \in BOOLEAN }

RevertHeaders ==
    { InboundHeaders,
      [name \in {"content-type", "Content-Length"} |->
          IF name = "content-type" THEN InboundHeaders[name] ELSE Decimal(17)] }

RevertRequests ==
    { NewRequest(OPENAI_CHAT_COMPLETION_ENDPOINT, api, Undefined, Some(0), headers, fields) :
        api \in {"openai", "openai-image", "anthropic-chat"},
        headers \in RevertHeaders, fields \in RevertBodies }

\* what the mutators before finalizeBody ask of the manager
ManagerCalls ==
    { [call |-> "setHeader", name |-> "Authorization", value |-> secret],
      [call |-> "setUrl", url |-> ANTHROPIC_COMPLETION_ENDPOINT],
      [call |-> "setBody", body |-> BodyObject([model |-> gpt_3_5_turbo_instruct])] }

\* a mutator of the pipeline calls the manager
mutator(c) ==
    /\ DOMAIN request # {}
    /\ request.stage = "queued"
    /\ Len(request.log) < MaxMutations
    /\ request' = CASE c.call = "setHeader" -> setHeader(request, c.name, c.value)
                    [] c.call = "setUrl" -> setUrl(request, c.url)
                    [] c.call = "setBody" -> setBody(request, c.body)
    /\ ret' = Void
    /\ UNCHANGED now

\* the last mutator of the pipeline; the request is sent
finalize ==
    /\ DOMAIN request # {}
    /\ request.stage = "queued"
    /\ request' = [finalizeBody(request) EXCEPT !.stage = "sent"]
    /\ ret' = Void
    /\ UNCHANGED now

\* the request is returned to the queue
requeue ==
    /\ DOMAIN request # {}
    /\ request.stage = "sent"
    /\ request' = [revert(request) EXCEPT !.stage = "queued"]
    /\ ret' = Void
    /\ UNCHANGED now

InitRevert == InitGate

RevertFrame ==
    /\ UNCHANGED poolVars /\ UNCHANGED storeVars
    /\ UNCHANGED <<upstream, handler, res>> /\ UNCHANGED lateVars

NextRevert ==
    \/ \E req \in RevertRequests : arrive(req) /\ RevertFrame
    \/ \E c \in ManagerCalls : mutator(c) /\ RevertFrame
    \/ finalize /\ RevertFrame
    \/ requeue /\ RevertFrame

SpecRevert == InitRevert /\ [][NextRevert]_vars

\* SpecAggregate: an aggregator of any format collects OpenAI chunks and
\* Anthropic events (with and without a completion, a log id and a model) in
\* any order, and is asked for the final response at any time.
AnthropicV2Events ==
    { [type |-> "completion", completion |-> He, stop_reason |-> Undefined],
      [type |-> "completion", completion |-> He, stop_reason |-> Some("stop_sequence"),
       log_id |-> "7", model |-> "claude-2"],
      [type |-> "ping"] }

AggregatorEvents ==
    { OpenAIChunk([role |-> "assistant", content |-> He], Undefined),
      OpenAIChunk([content |-> Text(<<"l", "l", "o">>)], Some("stop")) }
    \cup AnthropicV2Events

InitAggregate ==
    /\ keys = [h \in Hashes |-> NewKey(h)]
    /\ now = StartTime
    /\ ret = Void
    /\ markedAt = [h \in Hashes |-> 0]
    /\ window = NoSelections
    /\ config = [maxIpsPerUser |-> 0, tokenQuota |-> TokenQuota]
    /\ users = << >>
    /\ usersToFlush = {}
    /\ request = NoRequest
    /\ upstream = NoUpstream
    /\ handler = NoHandler
    /\ res = NewResponse
    /\ aggregator \in {NewAggregator(format) : format \in APIFormats}
    /\ inflight = {}
    /\ serviceKeys = << >>
    /\ modelsCaches = NoCaches
    /\ remote = << >>
    /\ flushes = << >>

AggregateFrame ==
    /\ UNCHANGED poolVars /\ UNCHANGED storeVars /\ UNCHANGED proxyVars
    /\ UNCHANGED inflight /\ UNCHANGED routerVars /\ UNCHANGED flushVars

NextAggregate ==
    \/ \E event \in AggregatorEvents :
            Len(aggregator.events) < MaxEvents /\ addEvent(event) /\ AggregateFrame
    \/ getFinalResponse /\ AggregateFrame

SpecAggregate == InitAggregate /\ [][NextAggregate]_vars

\* SpecClassify: a request of one of the inbound dialects, streaming or not,
\* waits (with heartbeats if it streams) and fails before it reaches the
\* upstream with an error of every kind.
QuotaInfos ==
    { [quota |-> [gpt4 |-> 100], used |-> [gpt4 |-> 95], requested |-> 10],
      [quota |-> [gpt4 |-> 2], used |-> [gpt4 |-> 2], requested |-> 1] }

InternalErrors ==
    { ZodError(<<"Required">>, "invalid"), ZodError(<< >>, "invalid"),
      NamedError("ForbiddenError", "Your account is disabled."),
      NamedError("Error", "socket hang up"),
      NamedError("TypeError", "x is undefined"),
      NamedError("QuotaExceededError", "not the class") }
    \cup { NewQuotaExceededError("You have exceeded your proxy token quota for this model.", i) :
             i \in QuotaInfos }

ClassifyRequests ==
    UNION { { StreamRequest("openai", "openai", inboundApi, isStreaming),
              [StreamRequest("openai", "openai", inboundApi, isStreaming) EXCEPT !.id = Text(<<"2">>)] } :
            inboundApi \in {"openai", "openai-text", "anthropic"}, isStreaming \in BOOLEAN }

InitClassify == InitProxy(ClassifyRequests, {200}, {<< >>})

NextClassify ==
    \/ heartbeat /\ StreamFrame
    \/ \E err \in InternalErrors : handleInternalError(err) /\ StreamFrame

SpecClassify == InitClassify /\ [][NextClassify]_vars

\* SpecModels: the three routers answer GET /v1/models while keys of the
\* OpenAI and Mistral services are disabled and half minutes pass.  The clock
\* starts at a time of day, far more than a minute after the epoch.
MaxHalfMinutes == 3
HalfMinute == MODELS_CACHE_TTL \div 2
ModelsStart == 2 * MODELS_CACHE_TTL

ServiceKeySets ==
    { << ServiceKey("openai", {"turbo", "gpt4"}), ServiceKey("openai", {"turbo", "dall-e"}),
         ServiceKey("mistral-ai", {"mistral-small", "mistral-large"}) >>,
      << ServiceKey("openai", {"gpt4-32k"}), ServiceKey("mistral-ai", {"mistral-tiny"}),
         ServiceKey("anthropic", {"claude"}) >> }

AllowedFamilySets ==
    { MODEL_FAMILIES \cup {"mistral-tiny", "mistral-small", "mistral-medium", "mistral-large"},
      {"turbo", "mistral-large"} }

InitModels ==
    /\ keys = [h \in Hashes |-> NewKey(h)]
    /\ now = ModelsStart
    /\ ret = Void
    /\ markedAt = [h \in Hashes |-> 0]
    /\ window = NoSelections
    /\ config \in { [maxIpsPerUser |-> 0, tokenQuota |-> TokenQuota, allowedModelFamilies |-> a] :
                      a \in AllowedFamilySets }
    /\ users = << >>
    /\ usersToFlush = {}
    /\ request = NoRequest
    /\ upstream = NoUpstream
    /\ handler = NoHandler
    /\ res = NewResponse
    /\ aggregator = NoAggregator
    /\ inflight = {}
    /\ serviceKeys \in ServiceKeySets
    /\ modelsCaches = NoCaches
    /\ remote = << >>
    /\ flushes = << >>

\* a key of a service is disabled
disableServiceKey(i) ==
    /\ ~serviceKeys[i].isDisabled
    /\ serviceKeys' = [serviceKeys EXCEPT ![i].isDisabled = TRUE]
    /\ ret' = Void
    /\ UNCHANGED <<now, res, modelsCaches>>

\* half a minute passes
HalfMinutePasses ==
    /\ now + HalfMinute <= ModelsStart + MaxHalfMinutes * HalfMinute
    /\ now' = now + HalfMinute
    /\ ret' = Void
    /\ UNCHANGED <<res, serviceKeys, modelsCaches>>

ModelsFrame ==
    /\ UNCHANGED poolVars /\ UNCHANGED storeVars /\ UNCHANGED <<request, upstream, handler>>
    /\ UNCHANGED flightVars /\ UNCHANGED flushVars

NextModels ==
    \/ openaiHandleModelRequest /\ ModelsFrame
    \/ imageHandleModelRequest /\ ModelsFrame
    \/ mistralHandleModelRequest /\ ModelsFrame
    \/ \E i \in DOMAIN serviceKeys : disableServiceKey(i) /\ ModelsFrame
    \/ HalfMinutePasses /\ ModelsFrame

SpecModels == InitModels /\ [][NextModels]_vars

\* SpecClassifier: the classifiers are called with the model ids the routers
\* know, with ids one character away from a regular expression of the table,
\* and with ids of other providers; OpenAI ids with every default family.
OpenAIIds ==
    Range(knownModels) \cup
    { <<"g", "p", "t", "-", "4", "-", "1", "1", "0", "6">>,
      <<"g", "p", "t", "-", "4", "-", "1", "1", "0", "6", "-", "p", "r", "e", "v", "i", "e", "w">>,
      <<"g", "p", "t", "-", "4", "-", "1", "1", "0", "6", "-", "p", "r", "e", "v", "i", "e", "w", "s">>,
      <<"g", "p", "t", "-", "4", "-", "1", "1", "0", "6", "7">>,
      <<"g", "p", "t", "-", "4", "-", "0", "6", "1">>,
      <<"g", "p", "t", "-", "4", "-", "3", "2", "k", "-", "0", "6", "1", "3", "4">>,
      <<"g", "p", "t", "-", "4", "-", "t", "u", "r", "b", "o">>,
      <<"x", "g", "p", "t", "-", "4">>,
      <<"g", "p", "t", "-", "3", "x", "5", "-", "t", "u", "r", "b", "o">>,
      <<"g", "p", "t", "-", "3", ".", "5", "-", "t", "u", "r", "b">>,
      <<"g", "p", "t", "-", "3", ".", "5", "-", "t", "u", "r", "b", "o", "-", "a", "n", "y", "t", "h", "i", "n", "g">>,
      <<"t", "e", "x", "t", "-", "e", "m", "b", "e", "d", "d", "i", "n", "g", "-", "a", "d", "a", "-", "0", "0", "2", "1">>,
      <<"d", "a", "l", "l", "-", "e", "-", "2", "0", "2", "4">>,
      <<"d", "a", "l", "l", "-", "e", "-", "3">>,
      <<>>,
      <<"c", "l", "a", "u", "d", "e", "-", "2">>,
      <<"t", "e", "x", "t", "-", "b", "i", "s", "o", "n", "-", "0", "0", "1">>,
      <<"g", "p", "t", "-", "5">>,
      <<"G", "P", "T", "-", "4">>,
      <<"d", "a", "v", "i", "n", "c", "i", "-", "0", "0", "2">>,
      <<"g", "p", "t", "-", "4", "-", "3", "2", "k", "-", "0", "6", "1", "3", "x">>,
      <<"m", "i", "s", "t", "r", "a", "l", "-", "t", "i", "n", "y">> }

ClaudeIds ==
    { <<"a", "n", "t", "h", "r", "o", "p", "i", "c", ".", "c", "l", "a", "u", "d", "e", "-", "v", "2">>,
      <<"a", "n", "t", "h", "r", "o", "p", "i", "c", ".">>,
      <<"a", "n", "t", "h", "r", "o", "p", "i", "c">>,
      <<"A", "n", "t", "h", "r", "o", "p", "i", "c", ".", "c", "l", "a", "u", "d", "e", "-", "v", "2">>,
      <<"c", "l", "a", "u", "d", "e", "-", "2">>,
      <<"c", "l", "a", "u", "d", "e", "-", "i", "n", "s", "t", "a", "n", "t", "-", "1", ".", "2">>,
      <<"x", "-", "a", "n", "t", "h", "r", "o", "p", "i", "c", ".", "c", "l", "a", "u", "d", "e">>,
      <<>>,
      <<"g", "p", "t", "-", "4">> }

OpenAIFamilies == {"turbo", "gpt4", "gpt4-32k", "gpt4-turbo", "dall-e"}

ClassifierFrame ==
    /\ UNCHANGED poolVars /\ UNCHANGED storeVars /\ UNCHANGED proxyVars
    /\ UNCHANGED lateVars

NextClassifier ==
    \/ \E model \in OpenAIIds, defaultFamily \in OpenAIFamilies :
            callOpenAIModelFamily(model, defaultFamily) /\ ClassifierFrame
    \/ \E model \in ClaudeIds : callClaudeModelFamily(model) /\ ClassifierFrame

SpecClassifier == Init /\ [][NextClassifier]_vars

\* SpecRace: up to MaxInFlight requests of the users of SpecCheck are being
\* served at a time; each is checked for the tokens it asks for and charged,
\* when its response arrives, for no more than that.
MaxInFlight == 2

\* a model id for each family that a quota is configured for
RaceModels == { m \in QuotaModels : m.id \in {gpt_4_1106_preview, text_bison_001} }

RaceFrame ==
    /\ UNCHANGED poolVars /\ UNCHANGED proxyVars /\ UNCHANGED routerVars
    /\ UNCHANGED flushVars

NextRace ==
    \/ \E o \in QuotaOptions :
            createUser(o) /\ UNCHANGED flightVars /\ RaceFrame
    \/ \E id \in 1..MaxInFlight, t \in AnyToken, m \in RaceModels, r \in 1..MaxTokens :
            admit(id, t, m.id, r) /\ RaceFrame
    \/ \E r \in inflight, c \in 0..MaxTokens :
            c <= r.requested /\ settle(r, c) /\ RaceFrame

SpecRace == Init /\ [][NextRace]_vars

\* SpecFlush: two days after the start, users are created, upserted by the
\* administrator (as normal users, or as temporary users that were disabled
\* at the start) and cleaned up; flushUsers runs at any time (its interval,
\* and the flush every upsert schedules), and up to MaxWrites writes wait for
\* the remote store, which serves them all.  SpecFail is SpecFlush with a
\* remote store that may fail a write.
MaxWrites == 2

FlushOptions == { << >> }
\* the administrator upserts the user of the first token
FlushUpdates ==
    { [token |-> 1, set |-> u, del |-> {}] :
        u \in { [type |-> "normal"],
                [type |-> "temporary", disabledAt |-> Some(StartTime)] } }

InitFlush ==
    /\ keys = [h \in Hashes |-> NewKey(h)]
    /\ now = StartTime + 2 * DAY
    /\ ret = Void
    /\ markedAt = [h \in Hashes |-> 0]
    /\ window = NoSelections
    /\ config = [maxIpsPerUser |-> 0, tokenQuota |-> TokenQuota]
    /\ users = << >>
    /\ usersToFlush = {}
    /\ request = NoRequest
    /\ upstream = NoUpstream
    /\ handler = NoHandler
    /\ res = NewResponse
    /\ AtRest

\* uuid() returns a token that no user had: none that is dirty, stored
\* remotely or part of a pending write
Unused(token) ==
    /\ token \notin usersToFlush \cup DOMAIN remote
    /\ \A i \in 1..Len(flushes) : token \notin Flushing(flushes[i])

FlushFrame ==
    /\ UNCHANGED poolVars /\ UNCHANGED proxyVars /\ UNCHANGED flightVars
    /\ UNCHANGED routerVars

NextFlush ==
    \/ \E o \in FlushOptions :
            createUser(o) /\ Unused(ret'.token) /\ UNCHANGED flushVars /\ FlushFrame
    \/ \E u \in FlushUpdates : upsertUser(u) /\ UNCHANGED flushVars /\ FlushFrame
    \/ cleanupExpiredTokens /\ UNCHANGED flushVars /\ FlushFrame
    \/ Len(flushes) < MaxWrites /\ flushUsers /\ FlushFrame
    \/ served /\ FlushFrame

SpecFlush == InitFlush /\ [][NextFlush]_vars

NextFail ==
    \/ NextFlush
    \/ rejected /\ FlushFrame

SpecFail == InitFlush /\ [][NextFail]_vars

\* SpecRefresh: users of every type, with the configured limits or limits of
\* their own, are charged one token at a time for models of every family that
\* tokens are counted under, and the refresh job runs at any time.  The quota
\* is configured for two families, or for one with another left out.
RefreshQuotas ==
    { TokenQuota,
      [TokenQuota EXCEPT !["gpt4"] = Undefined, !["claude"] = Some(1)] }

RefreshOptions == QuotaOptions \cup { [type |-> "temporary"] }

InitRefresh ==
    /\ keys = [h \in Hashes |-> NewKey(h)]
    /\ now = StartTime
    /\ ret = Void
    /\ markedAt = [h \in Hashes |-> 0]
    /\ window = NoSelections
    /\ config \in { [maxIpsPerUser |-> 0, tokenQuota |-> q] : q \in RefreshQuotas }
    /\ users = << >>
    /\ usersToFlush = {}
    /\ request = NoRequest
    /\ upstream = NoUpstream
    /\ handler = NoHandler
    /\ res = NewResponse
    /\ AtRest

RefreshFrame == UNCHANGED poolVars /\ UNCHANGED proxyVars /\ UNCHANGED lateVars

NextRefresh ==
    \/ \E o \in RefreshOptions : createUser(o) /\ RefreshFrame
    \/ \E t \in Tokens, m \in QuotaModels :
            /\ StoreTokens + 1 <= MaxTokens
            /\ incrementTokenCount(t, m.id, 1)
            /\ RefreshFrame
    \/ refreshAllQuotas /\ RefreshFrame

SpecRefresh == InitRefresh /\ [][NextRefresh]_vars

\* SpecFallback: handleStreamedResponse is called for the requests of
\* SpecStream and for requests that do not stream, with an upstream that
\* answers 200 or an error status, before or after the heartbeat has written
\* to the response; an upstream error is then answered by the blocking stack.
BlockingRequests ==
    { StreamRequest(api, service, api, FALSE) : api \in {"openai", "anthropic"},
                                                 service \in {"openai", "anthropic"} }

InitFallback ==
    /\ InitProxy(StreamRequests \cup BlockingRequests, {200} \cup ErrorStatuses,
                 StreamBodies("openai") \cup StreamBodies("anthropic"))
    /\ IF upstream.statusCode = 200
       THEN upstream.body \in StreamBodies(handler.req.service)
       ELSE upstream.body = << >>

NextFallback ==
    \/ heartbeat /\ StreamFrame
    \/ handleStreamedResponse /\ StreamFrame
    \/ \E p \in ErrorPayloads :
            upstream.statusCode # 200 /\ writeErrorResponse(upstream.statusCode, p) /\ StreamFrame

SpecFallback == InitFallback /\ [][NextFallback]_vars

---------------------------------------------------------------------------
(* Properties of the key pool *)

Enabled(ks) == {h \in Hashes : ~ks[h].isDisabled}
NoKeysMessage == "No Google PaLM keys available"

\* C1: get never returns a disabled key: whenever the last call returned a key,
\* the returned copy is not disabled, and neither is the pool's key it copies.
C1_GetNeverReturnsDisabled ==
    ret.kind = "key" =>
        /\ ~ret.key.isDisabled
        /\ ret.key.hash \in Enabled(keys)

\* get has returned a key of a pool in which another key, used before, is disabled
C1_Witness ==
    /\ ret.kind = "key"
    /\ \E h \in Hashes : keys[h].isDisabled /\ keys[h].lastUsed > 0
    /\ ret.key.lastChecked = 0

\* the sort's test, on the pool's key h at the current time
RateLimitedNow(h) == now - keys[h].rateLimitedAt < RATE_LIMIT_LOCKOUT

\* key a is inside the lockout that markRateLimited set on it (only
\* markRateLimited leaves rateLimitedUntil = rateLimitedAt + RATE_LIMIT_LOCKOUT)
InMarkLockout(a) ==
    /\ keys[a].rateLimitedAt > 0
    /\ keys[a].rateLimitedUntil = keys[a].rateLimitedAt + RATE_LIMIT_LOCKOUT
    /\ now - keys[a].rateLimitedAt < RATE_LIMIT_LOCKOUT
    /\ now < keys[a].rateLimitedUntil

\* C2: when an enabled key a is inside the lockout set by markRateLimited and
\* another enabled key b is past its rateLimitedUntil, a successful get returns
\* a key that is past its rateLimitedUntil, and never a.
C2_GetAvoidsLockedKey ==
    [][ \A a, b \in Hashes :
            ( /\ ret'.kind = "key"
              /\ a # b
              /\ a \in Enabled(keys) /\ b \in Enabled(keys)
              /\ InMarkLockout(a)
              /\ now >= keys[b].rateLimitedUntil
              /\ LockoutPeriod(keys, now) = 0 )
            => /\ ret'.key.hash # a
               /\ now >= keys[ret'.key.hash].rateLimitedUntil ]_vars

\* the selection order of the specification: x is strictly preferred to y
Preferred(x, y, t) ==
    LET xLimited == t - x.rateLimitedAt < RATE_LIMIT_LOCKOUT
        yLimited == t - y.rateLimitedAt < RATE_LIMIT_LOCKOUT
        tie == /\ xLimited = yLimited
               /\ xLimited => x.rateLimitedAt = y.rateLimitedAt
    IN  \/ ~xLimited /\ yLimited
        \/ xLimited /\ yLimited /\ x.rateLimitedAt < y.rateLimitedAt
        \/ tie /\ x.lastUsed < y.lastUsed

\* C3: the key a successful get returns is minimal among the enabled keys under
\* the selection order (not rate limited first, then the earlier rateLimitedAt,
\* then the older lastUsed): no enabled key is strictly preferred to it.
C3_GetReturnsMinimal ==
    [][ ret'.kind = "key" =>
            \A h \in Enabled(keys) :
                ~Preferred(keys[h], keys[ret'.key.hash], now) ]_vars

\* C4: under the dispatcher, whenever every enabled key (there is one) was last
\* marked rate limited at the same time t and now is in [t, t + RATE_LIMIT_LOCKOUT),
\* the lockout period is strictly positive.
C4_LockoutAfterMarkingAll ==
    \A t \in StartTime..MaxTime :
        ( /\ Enabled(keys) # {}
          /\ \A h \in Enabled(keys) : markedAt[h] = t
          /\ t <= now /\ now < t + RATE_LIMIT_LOCKOUT )
        => LockoutPeriod(keys, now) > 0

\* C5: the period getLockoutPeriod returns is 0 when no key is enabled or some
\* enabled key is past its rateLimitedUntil; otherwise it is the least
\* rateLimitedUntil - now over the enabled keys, and strictly positive.  Only the
\* enabled keys enter the result.
C5_LockoutPeriodValue ==
    ret.kind = "period" =>
        LET E == Enabled(keys)
            free == \E h \in E : now >= keys[h].rateLimitedUntil
        IN  IF E = {} \/ free
            THEN ret.value = 0
            ELSE /\ ret.value > 0
                 /\ \E h \in E : ret.value = keys[h].rateLimitedUntil - now
                 /\ \A h \in E : ret.value <= keys[h].rateLimitedUntil - now

\* getLockoutPeriod has answered a positive period for a pool in which a disabled
\* key is past its rateLimitedUntil
C5_Witness ==
    /\ ret.kind = "period"
    /\ ret.value > 0
    /\ \E h \in Hashes : keys[h].isDisabled /\ now >= keys[h].rateLimitedUntil

\* C6: a get on a pool with no enabled key throws and changes no key.
C6_GetThrowsWhenNoneEnabled ==
    [][ (get /\ Enabled(keys) = {}) =>
            /\ ret' = Thrown(NoKeysMessage)
            /\ keys' = keys ]_vars

\* get has thrown on a pool whose keys, used and rate limited before, are all disabled
C6_Witness ==
    /\ ret = Thrown(NoKeysMessage)
    /\ Enabled(keys) = {}
    /\ \E h \in Hashes : keys[h].lastUsed > 0
    /\ \E h \in Hashes : keys[h].rateLimitedUntil = keys[h].rateLimitedAt + RATE_LIMIT_LOCKOUT

\* C7: a successful get writes lastUsed = now and rateLimitedUntil = now +
\* KEY_REUSE_DELAY on the selected key and changes nothing else.
C7_GetFrame ==
    [][ ret'.kind = "key" =>
            LET h == ret'.key.hash
            IN  keys' = [keys EXCEPT ![h].lastUsed = now,
                                     ![h].rateLimitedUntil = now + KEY_REUSE_DELAY] ]_vars

\* C8: markRateLimited on a key of the pool writes rateLimitedAt = now and
\* rateLimitedUntil = now + RATE_LIMIT_LOCKOUT on that key; every other field of
\* the key and every other key stay as they were.
C8_MarkRateLimitedEffect ==
    [][ \A h \in Hashes : markRateLimited(h) =>
            /\ keys'[h].rateLimitedAt = now
            /\ keys'[h].rateLimitedUntil = now + RATE_LIMIT_LOCKOUT
            /\ \A f \in DOMAIN keys[h] \ {"rateLimitedAt", "rateLimitedUntil"} :
                   keys'[h][f] = keys[h][f]
            /\ \A g \in Hashes \ {h} : keys'[g] = keys[g] ]_vars

\* a key used before has been marked rate limited at the current time
C8_Witness ==
    \E h \in Hashes :
        /\ keys[h].rateLimitedAt = now
        /\ keys[h].rateLimitedUntil = now + RATE_LIMIT_LOCKOUT
        /\ keys[h].lastUsed > 0 /\ keys[h].lastUsed < now
        /\ ret = Void

C10_CountersMonotonic ==
    [][ /\ \A h \in Hashes :
            /\ keys'[h].promptCount >= keys[h].promptCount
            /\ keys'[h].bisonTokens >= keys[h].bisonTokens
        /\ \A h \in Hashes, n \in 0..MaxTokens : incrementUsage(h, n) =>
            /\ keys'[h].promptCount = keys[h].promptCount + 1
            /\ keys'[h].bisonTokens = keys[h].bisonTokens + n
        /\ \A n \in 0..MaxTokens : incrementUsage(UnknownHash, n) => keys' = keys ]_vars

\* C11: with no markRateLimited call, over any window of N consecutive get calls
\* against M enabled keys (the clock never going back, several calls in the same
\* millisecond included), every enabled key is selected at least floor(N/M) - 1
\* times.
C11_EveryKeySelected ==
    LET M == Cardinality(Enabled(keys))
    IN  \A h \in Enabled(keys) : window.picks[h] >= (window.n \div M) - 1

\* the pool the claim expects after disable(hash): the key of that hash, when
\* the pool has it, is disabled and nothing else differs
AfterDisable(ks, hash) ==
    [h \in Hashes |-> IF h = hash THEN [ks[h] EXCEPT !.isDisabled = TRUE] ELSE ks[h]]

\* C12: disable never throws and changes nothing but isDisabled of its target:
\* on a key that is already disabled or a hash the pool does not have it leaves
\* the pool as it is, and a second disable changes nothing after a first.
C12_DisableIdempotent ==
    [][ \A h \in AnyHash : disable(h) =>
            /\ ret' = Void
            /\ keys' = AfterDisable(keys, h)
            /\ (h = UnknownHash \/ keys[h].isDisabled) => keys' = keys
            /\ AfterDisable(keys', h) = keys' ]_vars

\* a key that was used, throttled and checked is disabled, the other is not, and
\* the last call returned nothing
C12_Witness ==
    /\ ret = Void
    /\ \E h \in Hashes :
        /\ keys[h].isDisabled
        /\ keys[h].lastUsed > 0
        /\ keys[h].rateLimitedUntil > now
        /\ \E g \in Hashes : ~keys[g].isDisabled

\* C13 (as stated): after update(hash, partial) on a key of the pool the key's
\* lastChecked is the time of the call, whatever the partial carries, and the
\* other fields of the partial are merged into the key.
C13_LastCheckedIsNow ==
    [][ \A h \in Hashes, p \in Partials : update(h, p) =>
            /\ keys'[h].lastChecked = now
            /\ \A f \in (DOMAIN p) \ {"lastChecked"} : keys'[h][f] = p[f] ]_vars

\* C13 (amended): after update(hash, partial) on a key of the pool every field
\* of the partial is merged into the key, lastChecked included; lastChecked is
\* the time of the call only when the partial carries none; no other field and
\* no other key changes.
C13_LastCheckedDefault ==
    [][ \A h \in Hashes, p \in Partials : update(h, p) =>
            /\ \A f \in DOMAIN p : keys'[h][f] = p[f]
            /\ "lastChecked" \notin DOMAIN p => keys'[h].lastChecked = now
            /\ \A f \in (DOMAIN keys[h]) \ ((DOMAIN p) \cup {"lastChecked"}) :
                    keys'[h][f] = keys[h][f]
            /\ \A g \in Hashes \ {h} : keys'[g] = keys[g] ]_vars

\* an update has stamped lastChecked of a key that counted tokens with the time
\* of the call, while the other key is disabled with lastChecked 0
C13_Witness ==
    /\ ret = Void
    /\ \E h \in Hashes :
        /\ keys[h].lastChecked = now
        /\ keys[h].bisonTokens > 0
        /\ \E g \in Hashes : g # h /\ keys[g].isDisabled /\ keys[g].lastChecked = 0

---------------------------------------------------------------------------
(* Properties of the user store *)

\* the user is disabled: disabledAt holds a time
IsDisabled(u) == u.disabledAt # Undefined /\ u.disabledAt[1] > 0

\* C14: authenticate on a disabled user returns no user and leaves the user's
\* address list, lastUsedAt and disabledAt as they are; on a token no user has
\* it returns no user and changes no user.
C14_DisabledNotAuthenticated ==
    [][ \A t \in AnyToken, ip \in Ips : authenticate(t, ip) =>
            /\ t \notin DOMAIN users => (ret' = Void /\ users' = users)
            /\ (t \in DOMAIN users /\ IsDisabled(users[t])) =>
                    /\ ret' = Void
                    /\ users'[t].ip = users[t].ip
                    /\ users'[t].lastUsedAt = users[t].lastUsedAt
                    /\ users'[t].disabledAt = users[t].disabledAt ]_vars

\* a user who authenticated from one address at the start is disabled since
\* the current, later time, and the last call returned no user
C14_Witness ==
    /\ ret = Void
    /\ \E t \in DOMAIN users :
        /\ IsDisabled(users[t])
        /\ users[t].disabledAt = Some(now)
        /\ users[t].lastUsedAt = Some(StartTime)
        /\ now > StartTime
        /\ Len(users[t].ip) = 1

\* what the claim says of a call authenticate(t, ip) on an enabled user, with
\* the given text as the reason of disabling
IpCapStep(reason) ==
    \A t \in Tokens, ip \in Ips :
        (t \in DOMAIN users /\ ~IsDisabled(users[t]) /\ authenticate(t, ip)) =>
            LET u == users[t]
                capped == u.type # "special" /\ MAX_IPS_PER_USER > 0
                distinct == Len(u.ip) + (IF Includes(u.ip, ip) THEN 0 ELSE 1)
            IN  /\ (capped /\ distinct = MAX_IPS_PER_USER + 1) =>
                        /\ ret' = Void
                        /\ IsDisabled(users'[t])
                        /\ users'[t].disabledReason = Some(reason)
                /\ (capped /\ distinct <= MAX_IPS_PER_USER) =>
                        /\ ret' = ReturnedUser(users'[t])
                        /\ ~IsDisabled(users'[t])
                /\ ~capped =>
                        /\ ret' = ReturnedUser(users'[t])
                        /\ ~IsDisabled(users'[t])

\* C15 (as stated): with a limit of N > 0 addresses, the call presenting the
\* (N+1)-th distinct address of a user who is not special returns no user and
\* disables the user with the reason "IP address limit exceeded"; the first N
\* distinct addresses authenticate; a special user, and every user when the
\* limit is 0, is never disabled by authenticate.
C15_IpCapReason ==
    [][ IpCapStep("IP address limit exceeded") ]_vars

\* C15 (amended): the same, the reason of disabling being the text of the code,
\* "IP address limit exceeded." with its full stop.
C15_IpCapReasonOfCode ==
    [][ IpCapStep(IpLimitReason) ]_vars

\* under a limit of MaxIps, one user was disabled by the address after the
\* limit, and a special user has authenticated from as many and is not disabled
C15_Witness ==
    /\ MAX_IPS_PER_USER = MaxIps
    /\ \E t, s \in DOMAIN users :
        /\ users[t].type = "normal"
        /\ Len(users[t].ip) = MaxIps + 1
        /\ IsDisabled(users[t])
        /\ users[t].disabledReason = Some(IpLimitReason)
        /\ users[s].type = "special"
        /\ Len(users[s].ip) = MaxIps + 1
        /\ ~IsDisabled(users[s])
        /\ ret = ReturnedUser(users[s])

NoDuplicates(list) == \A i, j \in 1..Len(list) : list[i] = list[j] => i = j
IsPrefix(a, b) == Len(a) <= Len(b) /\ SubSeq(b, 1, Len(a)) = a

\* the part of C16 that does not depend on the bound: every step leaves each
\* address list free of duplicates and extends it only at its end, by at most
\* one address
IpListGrows ==
    \A t \in DOMAIN users' :
        /\ NoDuplicates(users'[t].ip)
        /\ t \in DOMAIN users =>
                /\ IsPrefix(users[t].ip, users'[t].ip)
                /\ Len(users'[t].ip) <= Len(users[t].ip) + 1

\* C16 (as stated): through authenticate calls, the address list of a user who
\* is not special has no duplicates, keeps the addresses in the order of their
\* first authentication and, under a positive limit, is never longer than it.
C16_IpListWithinCap ==
    [][ /\ IpListGrows
        /\ \A t \in DOMAIN users' :
            (users'[t].type # "special" /\ MAX_IPS_PER_USER > 0) =>
                Len(users'[t].ip) <= MAX_IPS_PER_USER ]_vars

\* C16 (amended): the same with the bound the code keeps: the list is never
\* longer than the limit plus one, and is longer than the limit only for a user
\* who is disabled (the address that exceeds the limit is recorded).
C16_IpListWithinCapPlusOne ==
    [][ /\ IpListGrows
        /\ \A t \in DOMAIN users' :
            (users'[t].type # "special" /\ MAX_IPS_PER_USER > 0) =>
                /\ Len(users'[t].ip) <= MAX_IPS_PER_USER + 1
                /\ Len(users'[t].ip) > MAX_IPS_PER_USER => IsDisabled(users'[t]) ]_vars

\* a user's addresses are recorded in the order 3, 1, 2 of their first
\* authentication, the last of them beyond the limit
C16_Witness ==
    /\ MAX_IPS_PER_USER = MaxIps
    /\ \E t \in DOMAIN users :
        /\ users[t].type = "normal"
        /\ users[t].ip = <<3, 1, 2>>
        /\ IsDisabled(users[t])

\* C20: every user of type temporary has a defined expiresAt, whatever options
\* createUser and upsertUser were given.
C20_TemporaryHasExpiry ==
    \A t \in DOMAIN users :
        users[t].type = "temporary" => users[t].expiresAt # Undefined

\* the answer the claim gives for a user counted under family F
QuotaAnswer(token, F, requested) ==
    IF token \notin DOMAIN users THEN FALSE
    ELSE IF users[token].type = "special" THEN TRUE
    ELSE LET limit == users[token].tokenLimits[F]
             count == users[token].tokenCounts[F]
         IN  IF limit = Undefined \/ limit = Some(0) THEN TRUE
             ELSE (IF count = Undefined THEN 0 ELSE count[1]) + requested < limit[1]

\* C17: hasAvailableQuota is false for a token no user has, true for a special
\* user, true when the limit of the family the model is counted under is 0 or
\* absent, and otherwise true exactly when the count plus the requested tokens
\* is strictly below the limit; it changes no user.
C17_QuotaAnswer ==
    [][ \A t \in AnyToken, m \in QuotaModels, r \in 0..MaxTokens :
            hasAvailableQuota(t, m.id, r) =>
                /\ ret' = ReturnedBool(
                            QuotaAnswer(t, getModelFamilyForQuotaUsage(m.id), r))
                /\ users' = users ]_vars

\* a request was refused while a user who is not special has counted tokens up
\* to the limit set by a quota refresh, and another has a limit of its own
C17_Witness ==
    /\ ret = ReturnedBool(FALSE)
    /\ \E t, u \in DOMAIN users :
        /\ users[t].type = "normal"
        /\ users[t].tokenCounts["gpt4"] = Some(1)
        /\ users[t].tokenLimits["gpt4"] = Some(1 + Quota)
        /\ users[u].tokenLimits = OwnLimits

\* the calls C18 interleaves with incrementTokenCount
OtherStoreCall ==
    \/ \E t \in Tokens : authenticate(t, 1)
    \/ \E t \in Tokens, m \in QuotaModels : hasAvailableQuota(t, m.id, 1)
    \/ \E t \in AnyToken : incrementPromptCount(t)
    \/ \E t \in AnyToken : refreshQuota(t)

\* C18: each incrementTokenCount(U, model, c) adds exactly c to U's count of the
\* family the model is counted under and changes no other count of U and no
\* other user; authenticate, hasAvailableQuota, incrementPromptCount and
\* refreshQuota change no count.  The counts of a user thus grow by exactly the
\* sum of the costs charged.
C18_ChargedExactly ==
    [][ /\ \A t \in Tokens, m \in QuotaModels, c \in 1..MaxTokens :
            (t \in DOMAIN users /\ incrementTokenCount(t, m.id, c)) =>
                LET F == getModelFamilyForQuotaUsage(m.id)
                    before == users[t].tokenCounts
                    after == users'[t].tokenCounts
                IN  /\ after[F] = Some((IF before[F] = Undefined THEN 0 ELSE before[F][1]) + c)
                    /\ \A G \in MODEL_FAMILIES \ {F} : after[G] = before[G]
                    /\ \A u \in (DOMAIN users) \ {t} : users'[u] = users[u]
        /\ OtherStoreCall =>
                \A t \in DOMAIN users : users'[t].tokenCounts = users[t].tokenCounts ]_vars

\* a user was charged one token under each of two families, counted a prompt
\* and had the quota refreshed after the charge; the other user's counts are 0
C18_Witness ==
    \E t, u \in DOMAIN users :
        /\ users[t].tokenCounts["gpt4"] = Some(1)
        /\ users[t].tokenCounts["claude"] = Some(1)
        /\ users[t].tokenLimits["claude"] = Some(1 + Quota)
        /\ users[t].promptCount = 1
        /\ users[u].tokenCounts = NewCounts
        /\ u # t

\* C19: for every supported model id, the family a user is charged under, and
\* checked against, is the family the classifier gives the model id.
C19_QuotaFamilyIsClassified ==
    [][ \A t \in Tokens, m \in SupportedModels :
            LET F == classify(m.service, m.id)
            IN  /\ \A c \in 1..MaxTokens :
                    (t \in DOMAIN users /\ incrementTokenCount(t, m.id, c)) =>
                        users'[t].tokenCounts[F] =
                            Some((IF users[t].tokenCounts[F] = Undefined THEN 0
                                  ELSE users[t].tokenCounts[F][1]) + c)
                /\ \A r \in 1..MaxTokens :
                    (t \in DOMAIN users /\ hasAvailableQuota(t, m.id, r)) =>
                        ret' = ReturnedBool(QuotaAnswer(t, F, r)) ]_vars

---------------------------------------------------------------------------
(* Properties of the streamed response *)

\* the frames written to the client, the heartbeat's keep-alive lines left out
Frames == SelectSeq(res.written, LAMBDA frame : frame # Ping)

HasPayload(frame) ==
    /\ StartsWith(frame, DataPrefix)
    /\ Len(frame) > Len(DataPrefix)
    /\ "json" \in DOMAIN frame[Len(DataPrefix) + 1]
\* its JSON value
Payload(frame) == frame[Len(DataPrefix) + 1].json

\* the events of the upstream read so far, and the events written to the client
EventsRead == SelectSeq(upstream.emitted, HasPayload)
EventsWritten == SelectSeq(Frames, HasPayload)

\* the text an event adds to the completion, in either dialect
DeltaOf(payload) ==
    IF "completion" \in DOMAIN payload THEN payload.completion
    ELSE IF "choices" \in DOMAIN payload /\ "content" \in DOMAIN payload.choices[1].delta
    THEN payload.choices[1].delta.content
    ELSE << >>

RECURSIVE Deltas(_)
Deltas(frames) ==
    IF frames = << >> THEN << >> ELSE DeltaOf(Payload(Head(frames))) \o Deltas(Tail(frames))

\* C25: with an OpenAI client and an Anthropic upstream, the i-th delta written
\* to the client is the i-th completion of the upstream without its first n
\* characters, n being the length of the completion before it (0 for the
\* first), so the deltas written add up to the last completion read.
C25_DeltasAreSuffixes ==
    ( /\ handler.req.api = "openai"
      /\ handler.req.service = "anthropic"
      /\ handler.phase = "streaming"
      /\ upstream.state # "errored" ) =>
        /\ Len(EventsWritten) = Len(EventsRead)
        /\ \A i \in 1..Len(EventsRead) :
              DeltaOf(Payload(EventsWritten[i])) =
                  Slice(Payload(EventsRead[i]).completion,
                        IF i = 1 THEN 0 ELSE Len(Payload(EventsRead[i - 1]).completion))
        /\ (EventsRead # << >> =>
              Deltas(EventsWritten) = Payload(EventsRead[Len(EventsRead)]).completion)

\* C26: when an OpenAI chat stream ends, the handler's promise is resolved
\* with a response of one message, whose content is the delta.content of the
\* events written to the client put together and whose finish_reason is that
\* of the last of them.
C26_FinalResponseIsConcatenation ==
    [][ (onEnd /\ handler.req.api = "openai" /\ handler.req.service = "openai") =>
          /\ handler'.promise.state = "resolved"
          /\ LET response == handler'.promise.value[1]
             IN  /\ Len(response.choices) = 1
                 /\ response.choices[1].message.content = Deltas(EventsWritten)
                 /\ (EventsWritten # << >> =>
                       response.choices[1].finish_reason =
                           Payload(EventsWritten[Len(EventsWritten)]).choices[1].finish_reason)
      ]_vars

\* C27: the end of the upstream response ends the client response and settles
\* the handler's promise with a final response, for OpenAI and for Anthropic;
\* for Anthropic the response is the last event read with log_id set to the
\* id of the request.
C27_EndSettles ==
    [][ onEnd =>
          /\ res'.ended
          /\ handler'.promise.state = "resolved"
          /\ ((handler.req.service = "anthropic" /\ EventsRead # << >>) =>
                LET last == Payload(EventsRead[Len(EventsRead)])
                IN  handler'.promise.value[1] = [last EXCEPT !.log_id = handler.req.id])
      ]_vars

\* the headers of an event stream were sent
SseStarted ==
    /\ res.headersSent
    /\ "content-type" \in DOMAIN res.headers
    /\ res.headers["content-type"] = "text/event-stream"

\* C28: when a response that was started as an event stream is ended, the
\* last frame written to it is "data: [DONE]" followed by a blank line.
C28_LastFrameIsDone ==
    (res.ended /\ SseStarted) =>
        /\ res.written # << >>
        /\ res.written[Len(res.written)] = DataDone \o BlankLine

\* the content of a fake event names the type and the message inside a fenced
\* code block
IsFenced(content, type, message) ==
    /\ StartsWith(content, Fence \o <<LF>>)
    /\ IncludesString(content, type \o Text(<<":", " ">>) \o message)
    /\ IncludesString(SubSeq(content, Len(Fence) + 1, Len(content)), Fence)

\* an event object of the dialect that carries the error
IsErrorEvent(payload, inboundApi, type, message) ==
    CASE inboundApi = "openai" ->
            /\ "choices" \in DOMAIN payload
            /\ payload.object = "chat.completion.chunk"
            /\ IsFenced(payload.choices[1].delta.content, type, message)
      [] inboundApi = "openai-text" ->
            /\ "choices" \in DOMAIN payload
            /\ payload.object = "text_completion"
            /\ IsFenced(payload.choices[1].text, type, message)
      [] inboundApi = "anthropic" ->
            /\ "completion" \in DOMAIN payload
            /\ IsFenced(payload.completion, type, message)

\* C29: on an error of the upstream during the stream, two frames are written
\* to the client: "data: <json>" and a blank line, the JSON value being an
\* event object of the inbound dialect that carries the error type and the
\* message inside a fenced code block, then "data: [DONE]" and a blank line.
C29_ErrorFrame ==
    [][ \A m \in ErrorMessages :
          (onError(m) /\ handler.req.inboundApi \in {"openai", "openai-text", "anthropic"}) =>
              /\ Len(res'.written) = Len(res.written) + 2
              /\ LET frame == res'.written[Len(res.written) + 1]
                 IN  /\ HasPayload(frame)
                     /\ frame = DataPrefix \o <<frame[Len(DataPrefix) + 1]>> \o BlankLine
                     /\ IsErrorEvent(Payload(frame), handler.req.inboundApi, MidStreamError, m)
              /\ res'.written[Len(res.written) + 2] = DataDone \o BlankLine
      ]_vars

\* C30: once the headers of the response were sent, by the heartbeat of the
\* queue or by the stream handler, no step sets a header or a status: the
\* headers and the status stay as they are and no call ends with
\* ERR_HTTP_HEADERS_SENT.
C30_NoHeadersAfterFlush ==
    [][ res.headersSent =>
          /\ res'.headers = res.headers
          /\ res'.statusCode = res.statusCode
          /\ ret' # Thrown("ERR_HTTP_HEADERS_SENT")
      ]_vars

\* the heartbeat sent the headers, the upstream answered with an error status
\* and writeErrorResponse ended the response with an error frame and
\* "data: [DONE]", no status set
C30_Witness ==
    /\ handler.phase = "fallback"
    /\ res.ended
    /\ Len(res.written) = 3
    /\ res.written[1] = Ping
    /\ HasPayload(res.written[2])
    /\ res.written[3] = DataDone \o BlankLine
    /\ res.statusCode = Undefined

---------------------------------------------------------------------------
(* Properties of the request pipeline *)

\* the request is from an existing user who is not special and whose quota
\* for the model does not cover the tokens requested
LacksQuota(req) ==
    /\ req.user # Undefined
    /\ req.user[1] \in DOMAIN users
    /\ users[req.user[1]].type # "special"
    /\ ~AvailableQuota(req.user[1], BodyModel(req),
                       Coalesce(req.promptTokens, 0) + Coalesce(req.outputTokens, 0))

\* C22: on the chat, text and image routes, the pipeline of a request whose
\* user lacks quota for the model ends with QuotaExceededError before addKey:
\* no key is assigned, the key pool is unchanged and the request is not sent.
C22_QuotaAbortsBeforeKey ==
    [][ ((rewriteRequest \/ openaiImagesProxy) /\ LacksQuota(request)) =>
          /\ ret' = QuotaExceededError
          /\ request'.stage = "aborted"
          /\ request'.key = Undefined
          /\ keys' = keys
      ]_vars

\* the headers, the URL and the body of the request are those it was
\* received with
AsReceived(req) ==
    /\ req.headers = req.original.headers
    /\ req.url = req.original.url
    /\ Body(req) = req.original.body

\* C23: a request that passed a pipeline ending in finalizeBody and whose
\* mutations are reverted has the headers, the URL and the body it was
\* received with.
C23_RevertRestores == [][ requeue => AsReceived(request') ]_vars

---------------------------------------------------------------------------
(* Properties of the event aggregator *)

---------------------------------------------------------------------------
(* Properties of the error classifier *)

\* the outcome required for an error: a schema-validation error, a
\* ForbiddenError, a QuotaExceededError, any other error
Required(err) ==
    CASE err.class = "ZodError" -> [status |-> 400, type |-> proxy_validation_error]
      [] err.class # "ZodError" /\ err.name = "ForbiddenError" ->
            [status |-> 403, type |-> organization_account_disabled]
      [] err.class = "QuotaExceededError" /\ err.name # "ForbiddenError" ->
            [status |-> 429, type |-> proxy_quota_exceeded]
      [] OTHER -> [status |-> 500, type |-> proxy_internal_error]

\* the payload carries the type required and, for a quota error, the quota,
\* the use and the request of the error
Carries(payload, err) ==
    /\ DOMAIN payload = {"error"}
    /\ payload.error.type = Required(err).type
    /\ err.class = "QuotaExceededError" =>
            /\ payload.error.info = err.quotaInfo
            /\ DOMAIN payload.error.info = {"quota", "used", "requested"}

\* the text of a fake event of a dialect
ContentOf(payload, inboundApi) ==
    CASE inboundApi = "openai" -> payload.choices[1].delta.content
      [] inboundApi = "openai-text" -> payload.choices[1].text
      [] inboundApi = "anthropic" -> payload.completion

\* C32: handleInternalError never throws, and answers every error once: a
\* response not yet started gets the status and a JSON body of the type
\* required for the error (400 proxy_validation_error, 403
\* organization_account_disabled, 429 proxy_quota_exceeded with quota, used
\* and requested, 500 proxy_internal_error) and is ended; a response already
\* streaming gets one event that names the status and carries that body,
\* then the terminator, and is ended.
C32_InternalErrorOutcome ==
    [][ \A err \in InternalErrors :
          handleInternalError(err) =>
              /\ ret' = Void
              /\ res'.ended
              /\ IF ~MidStream(res)
                 THEN /\ res'.statusCode = Some(Required(err).status)
                      /\ res'.written = <<res'.written[1]>>
                      /\ Parses(res'.written[1])
                      /\ Carries(JSONparse(res'.written[1]), err)
                 ELSE /\ res'.statusCode = res.statusCode
                      /\ Len(res'.written) = Len(res.written) + 2
                      /\ SubSeq(res'.written, 1, Len(res.written)) = res.written
                      /\ res'.written[Len(res'.written)] = DataDone \o BlankLine
                      /\ LET frame == res'.written[Len(res.written) + 1]
                             content == ContentOf(Payload(frame), handler.req.inboundApi)
                         IN  /\ HasPayload(frame)
                             /\ IncludesString(content,
                                    Text(<<"(">>) \o Decimal(Required(err).status) \o Text(<<")">>))
                             /\ \E i \in DOMAIN content :
                                    /\ "json" \in DOMAIN content[i]
                                    /\ Carries(content[i].json, err)
      ]_vars

\* a quota error was answered with status 429 and the quota, the use and the
\* request of the error
C32_Witness ==
    /\ res.ended
    /\ res.statusCode = Some(429)
    /\ Len(res.written) = 1
    /\ Parses(res.written[1])
    /\ JSONparse(res.written[1]).error.type = proxy_quota_exceeded
    /\ JSONparse(res.written[1]).error.info.requested = 10

---------------------------------------------------------------------------
(* Properties of GET /v1/models *)

\* the known models of a router whose family an enabled key of its service
\* serves and the configuration allows, in the order of the list
Listed(router) ==
    CASE router = "openai" ->
            Filter(knownModels, { id \in Range(knownModels) :
                                     getOpenAIModelFamily(id, "gpt4") \in Available("openai") })
      [] router = "openai-image" ->
            Filter(KNOWN_MODELS, { id \in Range(KNOWN_MODELS) :
                                      getOpenAIModelFamily(id, "gpt4") \in Available("openai") })
      [] router = "mistral-ai" ->
            Filter(KNOWN_MISTRAL_AI_MODELS,
                   { id \in Range(KNOWN_MISTRAL_AI_MODELS) :
                        getMistralAIModelFamily(id) \in Available("mistral-ai") })

\* the response is 200 with the body {object: "list", data}, data being the
\* models listed
AnswersList(r, ids) ==
    /\ r.ended
    /\ r.statusCode = Some(200)
    /\ Len(r.written) = 1
    /\ Parses(r.written[1])
    /\ LET body == JSONparse(r.written[1])
       IN  /\ body # Undefined
           /\ body.object = "list"
           /\ [i \in 1..Len(body.data) |-> body.data[i].id] = ids

\* C33: every GET /v1/models, on each of the three routers, from the cache or
\* not, is answered with 200 and the list of the known models whose family is
\* served by an enabled key of the service and is allowed.
C33_ModelsListed ==
    [][ /\ openaiHandleModelRequest => AnswersList(res', Listed("openai"))
        /\ imageHandleModelRequest => AnswersList(res', Listed("openai-image"))
        /\ mistralHandleModelRequest => AnswersList(res', Listed("mistral-ai"))
      ]_vars

---------------------------------------------------------------------------
(* Properties of the classifier *)

\* the regular expressions of the table that an id matches
Hits(model) ==
    {i \in 1..Len(OPENAI_MODEL_FAMILY_MAP) : Matches(model, OPENAI_MODEL_FAMILY_MAP[i])}

\* C34: every call of a classifier returns a family of the enumeration.  For
\* an OpenAI id it is the family of the first regular expression of the table
\* that matches (gpt4-turbo for gpt-4-1106 and gpt-4-1106-preview, which the
\* expression of gpt4 matches too), and the default given when none matches;
\* for an Anthropic id it is aws-claude when the id begins with "anthropic."
\* and claude otherwise.
C34_ClassifierTotal ==
    [][ /\ \A model \in OpenAIIds, defaultFamily \in OpenAIFamilies :
            callOpenAIModelFamily(model, defaultFamily) =>
                /\ ret'.kind = "openai-family"
                /\ ret'.family \in MODEL_FAMILIES
                /\ Hits(model) = {} => ret'.family = defaultFamily
                /\ \A i \in Hits(model) :
                        (\A j \in Hits(model) : i <= j) =>
                            ret'.family = OPENAI_MODEL_FAMILY_MAP[i].family
                /\ model \in {gpt_4_1106_preview, SubSeq(gpt_4_1106_preview, 1, 10)} =>
                        ret'.family = "gpt4-turbo"
        /\ \A model \in ClaudeIds :
            callClaudeModelFamily(model) =>
                /\ ret'.kind = "family"
                /\ ret'.family \in MODEL_FAMILIES
                /\ ret'.family =
                     IF Len(model) >= 10 /\ SubSeq(model, 1, 10) = <<"a", "n", "t", "h", "r", "o", "p", "i", "c", ".">>
                     THEN "aws-claude" ELSE "claude"
      ]_vars

\* gpt-4-1106, which two regular expressions match, was classified with the
\* default turbo
C34_Witness ==
    /\ ret.kind = "openai-family"
    /\ ret.model = SubSeq(gpt_4_1106_preview, 1, 10)
    /\ Cardinality(Hits(ret.model)) = 2
    /\ ret.family = "gpt4-turbo"

---------------------------------------------------------------------------
(* Properties of the reuse throttle *)

\* C35: a call of get decreases the rateLimitedUntil of no key: the reuse
\* throttle on the selected key never shortens a longer lockout that
\* markRateLimited set on it.
C35_GetKeepsLockout ==
    [][ get => \A h \in Hashes :
                  keys'[h].rateLimitedUntil >= keys[h].rateLimitedUntil ]_vars

\* get leaves the deadline of every key it did not select as it was, and the
\* deadline of the selected key is the time of the call plus the reuse delay
C35_GetSetsReuseDelay ==
    [][ get /\ ret'.kind = "key" =>
            \A h \in Hashes :
                keys'[h].rateLimitedUntil =
                    IF h = ret'.key.hash THEN now + KEY_REUSE_DELAY
                    ELSE keys[h].rateLimitedUntil ]_vars

---------------------------------------------------------------------------
(* Properties of concurrent requests *)

\* the user is not special and has a positive limit for the family
Limited(user, F) ==
    /\ user.type # "special"
    /\ Coalesce(user.tokenLimits[F], 0) > 0

\* C36: whatever the order in which concurrent requests pass the quota check
\* and are charged, for no more than they asked for, the tokens counted for a
\* user who is not special stay below the user's limit, for every family the
\* user has a positive limit for.
C36_CountBelowLimit ==
    \A t \in DOMAIN users, F \in MODEL_FAMILIES :
        Limited(users[t], F) =>
            Coalesce(users[t].tokenCounts[F], 0) < users[t].tokenLimits[F][1]

\* a charge made while no other request of the user is between its check and
\* its charge, and none was charged since this one was checked, keeps the
\* count below the limit
C36_CheckStillGood ==
    [][ \A r \in inflight, c \in 0..MaxTokens :
            /\ c <= r.requested
            /\ settle(r, c)
            /\ AvailableQuota(r.token, r.model, r.requested)
            /\ r.token \in DOMAIN users
            => LET F == getModelFamilyForQuotaUsage(r.model)
               IN  Limited(users[r.token], F) =>
                      Coalesce(users'[r.token].tokenCounts[F], 0)
                          < users'[r.token].tokenLimits[F][1] ]_vars

---------------------------------------------------------------------------
(* Properties of the flush to the remote store *)

\* C37: whatever the order of creations, upserts, clean-up deletions and
\* overlapping runs of flushUsers, once no write of a flush is pending and no
\* token is dirty the remote store holds exactly the users of the map: a user
\* deleted and created again while a flush awaits is not removed remotely by
\* the older flush.
C37_RemoteMatchesMap ==
    (flushes = << >> /\ usersToFlush = {}) => DOMAIN remote = DOMAIN users

\* C38: when the remote store fails a write of a run of flushUsers, the
\* tokens the run was flushing are in the dirty set afterwards, so that a
\* later flush writes them again.
C38_FailedFlushRetried ==
    [][ rejected => Flushing(Head(flushes)) \subseteq usersToFlush' ]_vars

---------------------------------------------------------------------------
(* Properties of the quota refresh *)

\* C39: after refreshAllQuotas every user that is not temporary has, for each
\* family with a positive configured quota, a limit that exceeds the tokens
\* counted by exactly that quota; the limits of the families whose quota is 0
\* or not configured, the token counts of every user and the limits of every
\* temporary user are as they were.
C39_RefreshAllQuotas ==
    [][ refreshAllQuotas =>
          /\ DOMAIN users' = DOMAIN users
          /\ \A t \in DOMAIN users :
                /\ users'[t].tokenCounts = users[t].tokenCounts
                /\ users'[t].type = users[t].type
                /\ IF users[t].type = "temporary"
                   THEN users'[t].tokenLimits = users[t].tokenLimits
                   ELSE \A F \in MODEL_FAMILIES :
                          IF Coalesce(config.tokenQuota[F], 0) > 0
                          THEN /\ users'[t].tokenLimits[F] # Undefined
                               /\ users'[t].tokenLimits[F][1]
                                     - Coalesce(users'[t].tokenCounts[F], 0)
                                   = config.tokenQuota[F][1]
                          ELSE users'[t].tokenLimits[F] = users[t].tokenLimits[F]
      ]_vars

\* a user with limits of its own was charged a token of gpt4 and refreshed
\* under the quota of two families, next to a temporary user whose limits are
\* the configured ones: the first has the limit 1 + Quota for gpt4, a new
\* limit for claude, and no limit for turbo as before
C39_Witness ==
    /\ config.tokenQuota = TokenQuota
    /\ \E t \in DOMAIN users :
          /\ users[t].type = "normal"
          /\ users[t].tokenCounts["gpt4"] = Some(1)
          /\ users[t].tokenLimits["gpt4"] = Some(1 + Quota)
          /\ users[t].tokenLimits["claude"] = Some(Quota)
          /\ users[t].tokenLimits["turbo"] = Undefined
    /\ \E t \in DOMAIN users :
          /\ users[t].type = "temporary"
          /\ users[t].tokenLimits = TokenQuota

---------------------------------------------------------------------------
(* Properties of the fallback of handleStreamedResponse *)

NotStreaming == "handleStreamedResponse called for non-streaming request."

\* C40: called for a streaming request whose upstream answered with a status
\* other than 200, handleStreamedResponse writes nothing to the response (no
\* header of an event stream, no event), clears the isStreaming flag of the
\* request and hands the response to the blocking decoder; called for a
\* request that does not stream, it fails with an error and writes nothing.
C40_FallbackOnError ==
    [][ handleStreamedResponse =>
          /\ (handler.req.isStreaming /\ upstream.statusCode # 200) =>
                /\ res' = res
                /\ ~handler'.req.isStreaming
                /\ handler'.phase = "fallback"
                /\ handler'.promise = NoPromise
                /\ ret' = Void
          /\ ~handler.req.isStreaming =>
                /\ res' = res
                /\ ret' = Thrown(NotStreaming)
                /\ handler'.promise = Rejected(NotStreaming)
                /\ handler'.phase = "failed"
      ]_vars

\* a streaming request that no heartbeat had answered got 500 from the
\* upstream: it no longer streams, the blocking decoder has it, and the
\* response is untouched
C40_Witness ==
    /\ handler.phase = "fallback"
    /\ ~handler.req.isStreaming
    /\ upstream.statusCode = 500
    /\ res = NewResponse

=============================================================================
